---- MODULE Spec2Model ----
(***************************************************************************)
(* Chess rules engine (games/chess_rules.py), chess bot                    *)
(* (games/chess_bot.py) and the game handlers of ChessGameConsumer         *)
(* (games/consumers.py).                                                   *)
(*                                                                         *)
(* Encoding.  A square "e4" is the pair <<5, 4>>: pos[0] is the file       *)
(* (ord(col) - ord('a') + 1) and int(pos[1]) the rank.  A piece "wp" is    *)
(* the pair <<"w", "p">>: piece[0] is the colour code, piece[1] the type.  *)
(* A position (a Python dict square -> piece) is a tuple of 64 cells,      *)
(* cell (rank-1)*8 + file; a square that is no key of the dict holds       *)
(* Empty.  Positions hold at most one king per colour, so the dict's       *)
(* iteration order never decides which king a search finds.                *)
(***************************************************************************)
EXTENDS Integers, Sequences, FiniteSets, TLC

Empty == <<"-", "-">>
\* Python's None, where a string, a square or a move is expected
None == "None"
NoSquare == <<0, 0>>
NoMove == <<>>

Files == 1..8
Ranks == 1..8
Squares == {<<c, r>> : c \in Files, r \in Ranks}
Colors == {"white", "black"}

abs(x) == IF x < 0 THEN -x ELSE x

\* Body(value), with value computed once
Let(value, Body(_)) == CHOOSE y \in {Body(x) : x \in {value}} : TRUE

\* 'a' <= col <= 'h' and 1 <= row <= 8
OnBoard(c, r) == c >= 1 /\ c <= 8 /\ r >= 1 /\ r <= 8

Idx(pos) == (pos[2] - 1) * 8 + pos[1]
\* board_state[pos]
At(board_state, pos) == board_state[(pos[2] - 1) * 8 + pos[1]]
\* pos in board_state
Has(board_state, pos) == board_state[(pos[2] - 1) * 8 + pos[1]] # Empty

\* color[0] if len(color) > 1 else color
ColorCode(color) ==
    IF color = "white" THEN "w" ELSE IF color = "black" THEN "b" ELSE color

EmptyBoard == [i \in 1..64 |-> Empty]

\* board[to_pos] = piece ; del board[from_pos]
MovePiece(board, from_pos, to_pos, piece) ==
    [i \in 1..64 |-> IF i = Idx(to_pos) THEN piece
                     ELSE IF i = Idx(from_pos) THEN Empty
                     ELSE board[i]]

(***************************************************************************)
(* games/chess_rules.py                                                    *)
(***************************************************************************)

is_valid_pawn_move(board_state, from_pos, to_pos, color) ==
    LET from_col == from_pos[1]
        from_row == from_pos[2]
        to_col == to_pos[1]
        to_row == to_pos[2]
        direction == IF color = "w" THEN 1 ELSE -1
        start_row == IF color = "w" THEN 2 ELSE 7
    IN  IF from_col = to_col
        THEN IF to_row = from_row + direction
             THEN ~Has(board_state, to_pos)
             ELSE IF from_row = start_row /\ to_row = from_row + 2 * direction
                  THEN ~Has(board_state, to_pos)
                       /\ ~Has(board_state, <<from_col, from_row + direction>>)
                  ELSE FALSE
        ELSE IF abs(to_col - from_col) = 1 /\ to_row = from_row + direction
             THEN Has(board_state, to_pos) /\ At(board_state, to_pos)[1] # color
             ELSE FALSE

is_valid_knight_move(board_state, from_pos, to_pos, color) ==
    LET dc == abs(to_pos[1] - from_pos[1])
        dr == abs(to_pos[2] - from_pos[2])
    IN  (dc = 2 /\ dr = 1) \/ (dc = 1 /\ dr = 2)

is_straight_clear(board_state, from_pos, to_pos) ==
    LET from_col == from_pos[1]
        from_row == from_pos[2]
        to_col == to_pos[1]
        to_row == to_pos[2]
    IN  IF from_col # to_col /\ from_row # to_row
        THEN FALSE
        ELSE IF from_col = to_col
             THEN LET step == IF to_row > from_row THEN 1 ELSE -1
                      \* range(from_row + step, to_row, step)
                      rows == IF step = 1 THEN (from_row + 1)..(to_row - 1)
                                          ELSE (to_row + 1)..(from_row - 1)
                  IN  \A row \in rows : ~Has(board_state, <<from_col, row>>)
             ELSE LET step == IF to_col > from_col THEN 1 ELSE -1
                      cols == IF step = 1 THEN (from_col + 1)..(to_col - 1)
                                          ELSE (to_col + 1)..(from_col - 1)
                  IN  \A col \in cols : ~Has(board_state, <<col, from_row>>)

is_diagonal_clear(board_state, from_pos, to_pos) ==
    LET dc == to_pos[1] - from_pos[1]
        dr == to_pos[2] - from_pos[2]
    IN  IF abs(dc) # abs(dr)
        THEN FALSE
        ELSE LET col_step == IF dc > 0 THEN 1 ELSE -1
                 row_step == IF dr > 0 THEN 1 ELSE -1
                 steps == abs(dc)
             IN  \A i \in 1..(steps - 1) :
                     ~Has(board_state, <<from_pos[1] + i * col_step,
                                         from_pos[2] + i * row_step>>)

is_valid_bishop_move(board_state, from_pos, to_pos, color) ==
    is_diagonal_clear(board_state, from_pos, to_pos)

is_valid_rook_move(board_state, from_pos, to_pos, color) ==
    is_straight_clear(board_state, from_pos, to_pos)

is_valid_queen_move(board_state, from_pos, to_pos, color) ==
    is_straight_clear(board_state, from_pos, to_pos)
    \/ is_diagonal_clear(board_state, from_pos, to_pos)

\* is_valid_king_move without its look around the destination
is_valid_king_move_one_step(board_state, from_pos, to_pos, color) ==
    abs(to_pos[1] - from_pos[1]) <= 1 /\ abs(to_pos[2] - from_pos[2]) <= 1

is_valid_king_move(board_state, from_pos, to_pos, color) ==
    LET dc == abs(to_pos[1] - from_pos[1])
        dr == abs(to_pos[2] - from_pos[2])
        enemy_color == IF color = "w" THEN "b" ELSE "w"
        enemy_king == <<enemy_color, "k">>
    IN  IF dc <= 1 /\ dr <= 1
        THEN ~\E ddc \in {-1, 0, 1}, ddr \in {-1, 0, 1} :
                 /\ ~(ddc = 0 /\ ddr = 0)
                 /\ OnBoard(to_pos[1] + ddc, to_pos[2] + ddr)
                 /\ At(board_state, <<to_pos[1] + ddc, to_pos[2] + ddr>>) = enemy_king
        ELSE FALSE

is_pseudo_legal_move(board_state, from_pos, to_pos, piece) ==
    LET piece_type == piece[2]
        piece_color == piece[1]
    IN  CASE piece_type = "p" -> is_valid_pawn_move(board_state, from_pos, to_pos, piece_color)
          [] piece_type = "n" -> is_valid_knight_move(board_state, from_pos, to_pos, piece_color)
          [] piece_type = "b" -> is_valid_bishop_move(board_state, from_pos, to_pos, piece_color)
          [] piece_type = "r" -> is_valid_rook_move(board_state, from_pos, to_pos, piece_color)
          [] piece_type = "q" -> is_valid_queen_move(board_state, from_pos, to_pos, piece_color)
          [] piece_type = "k" -> is_valid_king_move(board_state, from_pos, to_pos, piece_color)
          [] OTHER -> FALSE

RECURSIVE check_sliding_attack_from(_, _, _, _, _, _, _, _)
\* the loop body of check_sliding_attack for i, i+1, .. 7
check_sliding_attack_from(board_state, col, row, dc, dr, by_color_code, piece_types, i) ==
    IF i > 7 THEN FALSE
    ELSE LET new_col == col + dc * i
             new_row == row + dr * i
         IN  IF ~OnBoard(new_col, new_row) THEN FALSE
             ELSE LET piece == board_state[(new_row - 1) * 8 + new_col]
                  IN  IF piece # Empty
                      THEN piece[1] = by_color_code /\ piece[2] \in piece_types
                      ELSE check_sliding_attack_from(board_state, col, row, dc, dr,
                                                     by_color_code, piece_types, i + 1)

\* check_sliding_attack without the break at the first occupied square
check_sliding_attack_through(board_state, square, direction, by_color_code, piece_types) ==
    \E i \in 1..7 :
        /\ OnBoard(square[1] + i * direction[1], square[2] + i * direction[2])
        /\ At(board_state, <<square[1] + i * direction[1],
                             square[2] + i * direction[2]>>)[1] = by_color_code
        /\ At(board_state, <<square[1] + i * direction[1],
                             square[2] + i * direction[2]>>)[2] \in piece_types

check_sliding_attack(board_state, square, direction, by_color_code, piece_types) ==
    check_sliding_attack_from(board_state, square[1], square[2],
                              direction[1], direction[2], by_color_code, piece_types, 1)

KnightOffsets ==
    {<<2, 1>>, <<2, -1>>, <<-2, 1>>, <<-2, -1>>, <<1, 2>>, <<1, -2>>, <<-1, 2>>, <<-1, -2>>}
KingOffsets ==
    {<<dc, dr>> : dc \in {-1, 0, 1}, dr \in {-1, 0, 1}} \ {<<0, 0>>}
StraightDirections == {<<0, 1>>, <<0, -1>>, <<1, 0>>, <<-1, 0>>}
DiagonalDirections == {<<1, 1>>, <<1, -1>>, <<-1, 1>>, <<-1, -1>>}

is_square_under_attack(board_state, square, by_color) ==
    LET col == square[1]
        row == square[2]
        by_color_code == ColorCode(by_color)
        pawn_dir == IF by_color_code = "w" THEN -1 ELSE 1
    IN  \/ \E dc \in {-1, 1} :
               /\ OnBoard(col + dc, row + pawn_dir)
               /\ At(board_state, <<col + dc, row + pawn_dir>>) = <<by_color_code, "p">>
        \/ \E d \in KnightOffsets :
               /\ OnBoard(col + d[1], row + d[2])
               /\ At(board_state, <<col + d[1], row + d[2]>>) = <<by_color_code, "n">>
        \/ \E d \in KingOffsets :
               /\ OnBoard(col + d[1], row + d[2])
               /\ At(board_state, <<col + d[1], row + d[2]>>) = <<by_color_code, "k">>
        \/ \E direction \in StraightDirections :
               check_sliding_attack(board_state, square, direction, by_color_code, {"r", "q"})
        \/ \E direction \in DiagonalDirections :
               check_sliding_attack(board_state, square, direction, by_color_code, {"b", "q"})

\* the square of the first item of board.items() holding king_piece, or None
\* (NoSquare)
FindKing(board, king_piece) ==
    IF \E i \in 1..64 : board[i] = king_piece
    THEN LET i == CHOOSE j \in 1..64 : board[j] = king_piece
         IN  <<((i - 1) % 8) + 1, ((i - 1) \div 8) + 1>>
    ELSE NoSquare

\* the simulation with test_board = board_state, an alias instead of a copy
king_safety_simulation_in_place(board_state, from_pos, to_pos) ==
    [test_board |-> MovePiece(board_state, from_pos, to_pos, At(board_state, from_pos)),
     board_state |-> MovePiece(board_state, from_pos, to_pos, At(board_state, from_pos))]

\* Lines 213-216: test_board = dict(board_state), then the move is made on
\* test_board.  board_state is the caller's dict after these lines.
king_safety_simulation(board_state, from_pos, to_pos) ==
    [test_board |-> MovePiece(board_state, from_pos, to_pos, At(board_state, from_pos)),
     board_state |-> board_state]

\* is_move_legal_king_safety looking for the king but not at what attacks it
is_move_legal_king_safety_king_found(board_state, from_pos, to_pos, color) ==
    FindKing(king_safety_simulation(board_state, from_pos, to_pos).test_board,
             <<ColorCode(color), "k">>) # NoSquare

is_move_legal_king_safety(board_state, from_pos, to_pos, color) ==
    \E sim \in {king_safety_simulation(board_state, from_pos, to_pos)} :
        LET test_board == sim.test_board
            color_code == ColorCode(color)
            king_piece == <<color_code, "k">>
            opponent_color == IF color_code = "w" THEN "black" ELSE "white"
        IN  \E king_pos \in {FindKing(test_board, king_piece)} :
                /\ king_pos # NoSquare
                /\ ~is_square_under_attack(test_board, king_pos, opponent_color)

MsgNoPiece == "No piece at starting position"
MsgNotYours == "Not your piece"
MsgSameSquare == "Must move to different square"
MsgOwnPiece == "Cannot capture your own piece"
MsgIllegal == "Illegal move for this piece"
MsgKingInCheck == "Move leaves king in check"
MsgValid == "Valid move"

\* is_valid_move with the test for an own piece on the destination made
\* before the test that the destination differs from the source
is_valid_move_own_piece_first(board_state, from_pos, to_pos, current_turn) ==
    IF ~Has(board_state, from_pos)
    THEN <<FALSE, MsgNoPiece>>
    ELSE LET piece == At(board_state, from_pos)
             piece_color == IF piece[1] = "w" THEN "white" ELSE "black"
             turn_color == IF current_turn \in {"white", "black"} THEN current_turn
                           ELSE IF current_turn = "w" THEN "white" ELSE "black"
         IN  IF piece_color # turn_color
             THEN <<FALSE, MsgNotYours>>
             ELSE IF Has(board_state, to_pos) /\ At(board_state, to_pos)[1] = piece[1]
             THEN <<FALSE, MsgOwnPiece>>
             ELSE IF to_pos = from_pos
             THEN <<FALSE, MsgSameSquare>>
             ELSE IF ~is_pseudo_legal_move(board_state, from_pos, to_pos, piece)
             THEN <<FALSE, MsgIllegal>>
             ELSE IF ~is_move_legal_king_safety(board_state, from_pos, to_pos, piece_color)
             THEN <<FALSE, MsgKingInCheck>>
             ELSE <<TRUE, MsgValid>>

\* <<is_valid, error_message>>
is_valid_move(board_state, from_pos, to_pos, current_turn) ==
    IF ~Has(board_state, from_pos)
    THEN <<FALSE, MsgNoPiece>>
    ELSE LET piece == At(board_state, from_pos)
             piece_color == IF piece[1] = "w" THEN "white" ELSE "black"
             turn_color == IF current_turn \in {"white", "black"} THEN current_turn
                           ELSE IF current_turn = "w" THEN "white" ELSE "black"
         IN  IF piece_color # turn_color
             THEN <<FALSE, MsgNotYours>>
             ELSE IF to_pos = from_pos
             THEN <<FALSE, MsgSameSquare>>
             ELSE IF Has(board_state, to_pos) /\ At(board_state, to_pos)[1] = piece[1]
             THEN <<FALSE, MsgOwnPiece>>
             ELSE IF ~is_pseudo_legal_move(board_state, from_pos, to_pos, piece)
             THEN <<FALSE, MsgIllegal>>
             ELSE IF ~is_move_legal_king_safety(board_state, from_pos, to_pos, piece_color)
             THEN <<FALSE, MsgKingInCheck>>
             ELSE <<TRUE, MsgValid>>

\* The caller's dict after is_valid_move(board_state, ..): the call touches a
\* dict only in the simulation of line 42, which it reaches exactly when it
\* returns one of its last two verdicts.
is_valid_move_leaves(board_state, from_pos, to_pos, current_turn) ==
    IF is_valid_move(board_state, from_pos, to_pos, current_turn)[2]
           \in {MsgKingInCheck, MsgValid}
    THEN king_safety_simulation(board_state, from_pos, to_pos).board_state
    ELSE board_state

is_in_check(board_state, color) ==
    LET color_code == ColorCode(color)
        opponent_color == IF color_code = "w" THEN "black" ELSE "white"
    IN  \E king_pos \in {FindKing(board_state, <<color_code, "k">>)} :
            /\ king_pos # NoSquare
            /\ is_square_under_attack(board_state, king_pos, opponent_color)

has_legal_moves(board_state, color) ==
    LET color_code == ColorCode(color)
    IN  \E pos \in Squares :
            /\ Has(board_state, pos)
            /\ At(board_state, pos)[1] = color_code
            /\ \E to_pos \in Squares :
                   to_pos # pos /\ is_valid_move(board_state, pos, to_pos, color)[1]

\* is_insufficient_material without its test for two pieces
is_insufficient_material_three(board_state) ==
    LET occupied == {i \in 1..64 : board_state[i] # Empty}
    IN  Cardinality(occupied) = 3
        /\ \E i \in occupied : board_state[i][2] \in {"n", "b"}

is_insufficient_material(board_state) ==
    LET occupied == {i \in 1..64 : board_state[i] # Empty}
        n == Cardinality(occupied)
    IN  IF n = 2 THEN TRUE
        ELSE IF n = 3
             THEN \E i \in occupied : board_state[i][2] \in {"n", "b"}
             ELSE FALSE

\* The caller's dict after has_legal_moves(board_state, color): what the
\* is_valid_move calls of its loop leave of it.  The loop stops at the first
\* valid move, and a call that reaches the simulation comes no later.
has_legal_moves_leaves(board_state, color) ==
    {is_valid_move_leaves(board_state, m[1], m[2], color) :
        m \in {<<pos, to_pos>> \in Squares \X Squares :
                  At(board_state, pos)[1] = ColorCode(color) /\ to_pos # pos}}
    \cup {board_state}

\* check_game_status naming the side to move the winner of a checkmate
check_game_status_mover_wins(board_state, current_turn) ==
    LET in_check == is_in_check(board_state, current_turn)
        has_moves == has_legal_moves(board_state, current_turn)
    IN  IF ~has_moves
        THEN IF in_check
             THEN <<"checkmate", current_turn, "Checkmate">>
             ELSE <<"stalemate", None, "Stalemate - No legal moves">>
        ELSE IF is_insufficient_material(board_state)
             THEN <<"draw", None, "Draw - Insufficient material">>
             ELSE IF in_check THEN <<"check", None, "Check">>
                  ELSE <<"playing", None, None>>

\* check_game_status taking every position without a legal move for a mate
check_game_status_no_moves_is_mate(board_state, current_turn) ==
    LET in_check == is_in_check(board_state, current_turn)
        has_moves == has_legal_moves(board_state, current_turn)
    IN  IF ~has_moves
        THEN <<"checkmate", IF current_turn = "white" THEN "black" ELSE "white",
               "Checkmate">>
        ELSE IF is_insufficient_material(board_state)
             THEN <<"draw", None, "Draw - Insufficient material">>
             ELSE IF in_check THEN <<"check", None, "Check">>
                  ELSE <<"playing", None, None>>

\* check_game_status testing the material before the legal moves
check_game_status_material_first(board_state, current_turn) ==
    LET in_check == is_in_check(board_state, current_turn)
        has_moves == has_legal_moves(board_state, current_turn)
    IN  IF is_insufficient_material(board_state)
        THEN <<"draw", None, "Draw - Insufficient material">>
        ELSE IF ~has_moves
        THEN IF in_check
             THEN <<"checkmate", IF current_turn = "white" THEN "black" ELSE "white",
                    "Checkmate">>
             ELSE <<"stalemate", None, "Stalemate - No legal moves">>
        ELSE IF in_check THEN <<"check", None, "Check">>
             ELSE <<"playing", None, None>>

\* <<status, winner, reason>>
check_game_status(board_state, current_turn) ==
    LET in_check == is_in_check(board_state, current_turn)
        has_moves == has_legal_moves(board_state, current_turn)
    IN  IF ~has_moves
        THEN IF in_check
             THEN <<"checkmate", IF current_turn = "white" THEN "black" ELSE "white",
                    "Checkmate">>
             ELSE <<"stalemate", None, "Stalemate - No legal moves">>
        ELSE IF is_insufficient_material(board_state)
             THEN <<"draw", None, "Draw - Insufficient material">>
             ELSE IF in_check THEN <<"check", None, "Check">>
                  ELSE <<"playing", None, None>>

(***************************************************************************)
(* games/chess_bot.py.  A Python list of squares or moves is the set of    *)
(* its members; random.choice(l) is any member of l.                       *)
(***************************************************************************)

RECURSIVE ChessBot_check_sliding_attack_from(_, _, _, _, _, _, _, _)
ChessBot_check_sliding_attack_from(board_state, col, row, dc, dr, by_code, piece_types, i) ==
    IF i > 7 THEN FALSE
    ELSE LET new_col == col + dc * i
             new_row == row + dr * i
         IN  IF ~OnBoard(new_col, new_row) THEN FALSE
             ELSE LET piece == board_state[(new_row - 1) * 8 + new_col]
                  IN  IF piece # Empty
                      THEN piece[1] = by_code /\ piece[2] \in piece_types
                      ELSE ChessBot_check_sliding_attack_from(board_state, col, row, dc, dr,
                                                              by_code, piece_types, i + 1)

\* ChessBot.check_sliding_attack without the break at the first occupied square
ChessBot_check_sliding_attack_through(board_state, square, direction, by_code, piece_types) ==
    \E i \in 1..7 :
        /\ OnBoard(square[1] + i * direction[1], square[2] + i * direction[2])
        /\ At(board_state, <<square[1] + i * direction[1],
                             square[2] + i * direction[2]>>)[1] = by_code
        /\ At(board_state, <<square[1] + i * direction[1],
                             square[2] + i * direction[2]>>)[2] \in piece_types

ChessBot_check_sliding_attack(board_state, square, direction, by_code, piece_types) ==
    ChessBot_check_sliding_attack_from(board_state, square[1], square[2],
                                       direction[1], direction[2], by_code, piece_types, 1)

ChessBot_is_square_under_attack(board_state, square, by_color) ==
    LET col == square[1]
        row == square[2]
        by_code == ColorCode(by_color)
        pawn_dir == IF by_color \in {"white", "w"} THEN -1 ELSE 1
    IN  \/ \E dc \in {-1, 1} :
               /\ OnBoard(col + dc, row + pawn_dir)
               /\ At(board_state, <<col + dc, row + pawn_dir>>) = <<by_code, "p">>
        \/ \E d \in KnightOffsets :
               /\ OnBoard(col + d[1], row + d[2])
               /\ At(board_state, <<col + d[1], row + d[2]>>) = <<by_code, "n">>
        \/ \E d \in KingOffsets :
               /\ OnBoard(col + d[1], row + d[2])
               /\ At(board_state, <<col + d[1], row + d[2]>>) = <<by_code, "k">>
        \/ \E direction \in StraightDirections :
               ChessBot_check_sliding_attack(board_state, square, direction, by_code, {"r", "q"})
        \/ \E direction \in DiagonalDirections :
               ChessBot_check_sliding_attack(board_state, square, direction, by_code, {"b", "q"})

is_adjacent_to_enemy_king(board_state, target, color) ==
    LET enemy_king == <<IF color = "w" THEN "b" ELSE "w", "k">>
    IN  \E d \in KingOffsets :
            /\ OnBoard(target[1] + d[1], target[2] + d[2])
            /\ At(board_state, <<target[1] + d[1], target[2] + d[2]>>) = enemy_king

\* get_pawn_moves without the advance of two squares
get_pawn_moves_one_square(pos, color, board_state) ==
    LET col == pos[1]
        new_row == pos[2] + (IF color = "w" THEN 1 ELSE -1)
    IN  (IF OnBoard(col, new_row) /\ ~Has(board_state, <<col, new_row>>)
         THEN {<<col, new_row>>} ELSE {})
        \cup
        {<<col + dc, new_row>> : dc \in
            {d \in {-1, 1} : /\ OnBoard(col + d, new_row)
                             /\ Has(board_state, <<col + d, new_row>>)
                             /\ At(board_state, <<col + d, new_row>>)[1] # color}}

get_pawn_moves(pos, color, board_state) ==
    LET col == pos[1]
        row == pos[2]
        direction == IF color = "w" THEN 1 ELSE -1
        start_row == IF color = "w" THEN 2 ELSE 7
        new_row == row + direction
        forward == <<col, new_row>>
        double == <<col, row + 2 * direction>>
        middle == <<col, row + direction>>
    IN  (IF OnBoard(col, new_row) /\ ~Has(board_state, forward)
         THEN {forward} \cup
              (IF row = start_row /\ ~Has(board_state, double) /\ ~Has(board_state, middle)
               THEN {double} ELSE {})
         ELSE {})
        \cup
        {<<col + dc, new_row>> : dc \in
            {d \in {-1, 1} : /\ OnBoard(col + d, new_row)
                             /\ Has(board_state, <<col + d, new_row>>)
                             /\ At(board_state, <<col + d, new_row>>)[1] # color}}

get_knight_moves(pos, color, board_state) ==
    {<<pos[1] + d[1], pos[2] + d[2]>> : d \in
        {o \in KnightOffsets :
            /\ OnBoard(pos[1] + o[1], pos[2] + o[2])
            /\ At(board_state, <<pos[1] + o[1], pos[2] + o[2]>>)[1] # color}}

RECURSIVE get_sliding_moves_from(_, _, _, _, _, _, _)
\* the loop body of get_sliding_moves for i, i+1, .. 7
get_sliding_moves_from(col, row, dc, dr, color, board_state, i) ==
    IF i > 7 THEN {}
    ELSE LET new_col == col + dc * i
             new_row == row + dr * i
             target == <<new_col, new_row>>
         IN  IF ~OnBoard(new_col, new_row) THEN {}
             ELSE IF Has(board_state, target)
                  THEN IF At(board_state, target)[1] # color THEN {target} ELSE {}
                  ELSE {target} \cup
                       get_sliding_moves_from(col, row, dc, dr, color, board_state, i + 1)

get_sliding_moves(pos, direction, color, board_state) ==
    get_sliding_moves_from(pos[1], pos[2], direction[1], direction[2], color, board_state, 1)

get_bishop_moves(pos, color, board_state) ==
    UNION {get_sliding_moves(pos, direction, color, board_state) :
              direction \in DiagonalDirections}

get_rook_moves(pos, color, board_state) ==
    UNION {get_sliding_moves(pos, direction, color, board_state) :
              direction \in StraightDirections}

get_queen_moves(pos, color, board_state) ==
    UNION {get_sliding_moves(pos, direction, color, board_state) :
              direction \in StraightDirections \cup DiagonalDirections}

get_king_moves(pos, color, board_state) ==
    {<<pos[1] + d[1], pos[2] + d[2]>> : d \in
        {o \in KingOffsets :
            /\ OnBoard(pos[1] + o[1], pos[2] + o[2])
            /\ At(board_state, <<pos[1] + o[1], pos[2] + o[2]>>)[1] # color
            /\ ~is_adjacent_to_enemy_king(board_state,
                                          <<pos[1] + o[1], pos[2] + o[2]>>, color)}}

get_piece_pseudo_moves(pos, piece, board_state) ==
    LET piece_type == piece[2]
        piece_color == piece[1]
    IN  CASE piece_type = "p" -> get_pawn_moves(pos, piece_color, board_state)
          [] piece_type = "n" -> get_knight_moves(pos, piece_color, board_state)
          [] piece_type = "b" -> get_bishop_moves(pos, piece_color, board_state)
          [] piece_type = "r" -> get_rook_moves(pos, piece_color, board_state)
          [] piece_type = "q" -> get_queen_moves(pos, piece_color, board_state)
          [] piece_type = "k" -> get_king_moves(pos, piece_color, board_state)
          [] OTHER -> {}

\* Lines 72-75: test_board = dict(board_state), then the move is made on
\* test_board.  board_state is the caller's dict after these lines.
safe_for_king_simulation(board_state, from_pos, to_pos) ==
    [test_board |-> MovePiece(board_state, from_pos, to_pos, At(board_state, from_pos)),
     board_state |-> board_state]

\* is_move_safe_for_king looking for the king but not at what attacks it
is_move_safe_for_king_king_found(board_state, from_pos, to_pos, color) ==
    FindKing(safe_for_king_simulation(board_state, from_pos, to_pos).test_board,
             <<ColorCode(color), "k">>) # NoSquare

is_move_safe_for_king(board_state, from_pos, to_pos, color) ==
    \E sim \in {safe_for_king_simulation(board_state, from_pos, to_pos)} :
        LET test_board == sim.test_board
            color_code == ColorCode(color)
            opponent == IF color \in {"black", "b"} THEN "white" ELSE "black"
        IN  \E king_pos \in {FindKing(test_board, <<color_code, "k">>)} :
                /\ king_pos # NoSquare
                /\ ~ChessBot_is_square_under_attack(test_board, king_pos, opponent)

\* the (pos, target) pairs the filter of get_all_legal_moves is asked about
pseudo_moves(board_state, color) ==
    LET color_code == ColorCode(color)
    IN  UNION {{<<pos, target>> :
                   target \in get_piece_pseudo_moves(pos, At(board_state, pos), board_state)} :
               pos \in {p \in Squares : At(board_state, p)[1] = color_code}}

\* get_all_legal_moves without the filter for the king's safety
get_all_legal_moves_unfiltered(board_state, color) ==
    pseudo_moves(board_state, color)

get_all_legal_moves(board_state, color) ==
    {m \in pseudo_moves(board_state, color) :
        is_move_safe_for_king(board_state, m[1], m[2], color)}

\* Lines 177-180, as lines 72-75
safe_position_simulation(board_state, from_pos, to_pos) ==
    [test_board |-> MovePiece(board_state, from_pos, to_pos, At(board_state, from_pos)),
     board_state |-> board_state]

is_move_safe_position(board_state, from_pos, to_pos, color) ==
    \E sim \in {safe_position_simulation(board_state, from_pos, to_pos)} :
        LET opponent == IF color \in {"black", "b"} THEN "white" ELSE "black"
        IN  ~ChessBot_is_square_under_attack(sim.test_board, to_pos, opponent)

\* the moves random.choice may return
select_check_escape_move(board_state, legal_moves, color) ==
    LET king_moves == {m \in legal_moves : At(board_state, m[1])[2] = "k"}
        capture_moves == {m \in legal_moves :
                             At(board_state, m[1])[2] # "k" /\ Has(board_state, m[2])}
        block_moves == {m \in legal_moves :
                           At(board_state, m[1])[2] # "k" /\ ~Has(board_state, m[2])}
    IN  IF capture_moves # {} THEN capture_moves
        ELSE IF block_moves # {} THEN block_moves
        ELSE IF king_moves # {} THEN king_moves
        ELSE legal_moves

\* the moves random.choice may return
\* select_strategic_move drawing from the risky captures before the safe moves
select_strategic_move_captures_first(board_state, legal_moves, color) ==
    Let({m \in legal_moves : is_move_safe_position(board_state, m[1], m[2], color)},
        LAMBDA safe :
            LET safe_captures == {m \in safe : Has(board_state, m[2])}
                safe_moves == {m \in safe : ~Has(board_state, m[2])}
                risky_captures == {m \in legal_moves \ safe : Has(board_state, m[2])}
                risky_moves == {m \in legal_moves \ safe : ~Has(board_state, m[2])}
            IN  IF safe_captures # {} THEN safe_captures
                ELSE IF risky_captures # {} THEN risky_captures
                ELSE IF safe_moves # {} THEN safe_moves
                ELSE IF risky_moves # {} THEN risky_moves
                ELSE legal_moves)

select_strategic_move(board_state, legal_moves, color) ==
    Let({m \in legal_moves : is_move_safe_position(board_state, m[1], m[2], color)},
        LAMBDA safe :
            LET safe_captures == {m \in safe : Has(board_state, m[2])}
                safe_moves == {m \in safe : ~Has(board_state, m[2])}
                risky_captures == {m \in legal_moves \ safe : Has(board_state, m[2])}
                risky_moves == {m \in legal_moves \ safe : ~Has(board_state, m[2])}
            IN  IF safe_captures # {} THEN safe_captures
                ELSE IF safe_moves # {} THEN safe_moves
                ELSE IF risky_captures # {} THEN risky_captures
                ELSE IF risky_moves # {} THEN risky_moves
                ELSE legal_moves)

\* the values make_move may return: {NoMove} (None) or a set of (from, to)
make_move(board_state, color) ==
    Let(get_all_legal_moves(board_state, color),
        LAMBDA legal_moves :
            IF legal_moves = {} THEN {NoMove}
            ELSE IF is_in_check(board_state, color)
                 THEN select_check_escape_move(board_state, legal_moves, color)
                 ELSE select_strategic_move(board_state, legal_moves, color))

\* The caller's dict after make_move(board_state, color): what the
\* simulations it runs leave of it (one value when none touches it).
make_move_leaves(board_state, color) ==
    {safe_for_king_simulation(board_state, m[1], m[2]).board_state :
        m \in pseudo_moves(board_state, color)}
    \cup
    (IF is_in_check(board_state, color) THEN {}
     ELSE {safe_position_simulation(board_state, m[1], m[2]).board_state :
              m \in get_all_legal_moves(board_state, color)})
    \cup {board_state}

(***************************************************************************)
(* games/models.py and the ChessGameConsumer handlers of                   *)
(* games/consumers.py.  game is the stored ChessGame row.  Each handler    *)
(* is one step: it reads the row, decides, writes the row and sends.       *)
(***************************************************************************)
VARIABLES
    game,        \* the ChessGame row
    bot_tasks,   \* make_bot_move tasks created and not yet run
    accepted,    \* moves accepted so far (history variable)
    last,        \* what the last handler read, wrote and sent (history variable)
    inflight,    \* handlers between their read of the row and their write
    waiting_players,  \* ChessMatchmakingConsumer.waiting_players
    matching,    \* try_match calls between their two pops and the game they create
    chess_games, \* the ChessGame rows matchmaking has created, in order
    sent,        \* the messages matchmaking has sent, each with its channel
    conns,       \* the connections: not yet made, open, or closed, and their users
    pos, side,   \* arguments handed to the engine's functions
    res          \* [op, out, after]: the function applied, its result, and the
                 \* values of the position argument after the call

lobby_vars == <<waiting_players, matching, chess_games, sent, conns>>
vars == <<game, bot_tasks, accepted, last, inflight, pos, side, res, lobby_vars>>
game_vars == <<game, bot_tasks, accepted, last, inflight>>
engine_vars == <<pos, side, res>>

(***************************************************************************)
(* Matchmaking (ChessMatchmakingConsumer).  A connection is named by its   *)
(* channel; an entry of the waiting list is [channel, user_id].            *)
(***************************************************************************)
Channels == {"c1", "c2", "c3", "c4"}
UserIds == {"u1", "u2", "u3"}

NoConn == [state |-> "new", user |-> None]

\* connect appending without removing the entries of the user
join_waiting_keeps_old(waiting, channel, user_id) ==
    Append(waiting, [channel |-> channel, user_id |-> user_id])

\* connect, lines 173-183: the entries of the user are removed, the new one
\* is appended
join_waiting(waiting, channel, user_id) ==
    Append(SelectSeq(waiting, LAMBDA p : p.user_id # user_id),
           [channel |-> channel, user_id |-> user_id])

\* disconnect, lines 191-194
leave_waiting(waiting, channel) == SelectSeq(waiting, LAMBDA p : p.channel # channel)

\* try_match popping from the end of the list (pop() for pop(0))
try_match_pop_last(waiting) ==
    IF Len(waiting) >= 2
    THEN [waiting |-> SubSeq(waiting, 1, Len(waiting) - 2),
          pair |-> <<waiting[Len(waiting)], waiting[Len(waiting) - 1]>>]
    ELSE [waiting |-> waiting, pair |-> <<>>]

\* try_match, lines 198-200: [waiting, pair], the list after and the two
\* entries popped (<<>> when fewer than two wait)
try_match(waiting) ==
    IF Len(waiting) >= 2
    THEN [waiting |-> Tail(Tail(waiting)), pair |-> <<waiting[1], waiting[2]>>]
    ELSE [waiting |-> waiting, pair |-> <<>>]

\* create_chess_game, lines 225-237; the code of the row is its number
create_chess_game(games, white_id, black_id) ==
    Append(games, [white_player |-> white_id, black_player |-> black_id,
                   is_bot_game |-> FALSE, status |-> "playing",
                   code |-> Len(games) + 1])

InitLobby ==
    /\ waiting_players = <<>>
    /\ matching = {}
    /\ chess_games = <<>>
    /\ sent = {}
    /\ conns = [c \in Channels |-> NoConn]

BackRank(color_code) ==
    [file \in 1..8 |-> <<color_code, <<"r", "n", "b", "q", "k", "b", "n", "r">>[file]>>]

initialize_board ==
    [i \in 1..64 |->
        LET file == ((i - 1) % 8) + 1
            rank == ((i - 1) \div 8) + 1
        IN  CASE rank = 8 -> BackRank("b")[file]
              [] rank = 7 -> <<"b", "p">>
              [] rank = 2 -> <<"w", "p">>
              [] rank = 1 -> BackRank("w")[file]
              [] OTHER -> Empty]

Users == {"u1", "u2", "u3"}

\* ChessMatchmakingConsumer.create_chess_game; save() fills code and board
NewMatchGame ==
    [board_state |-> initialize_board, current_turn |-> "white", move_history |-> <<>>,
     status |-> "playing", winner |-> None, is_bot_game |-> FALSE, bot_color |-> None,
     white_player |-> "u1", black_player |-> "u2"]

\* a game against the bot: the human is white, no black player
NewBotGame ==
    [board_state |-> initialize_board, current_turn |-> "white", move_history |-> <<>>,
     status |-> "playing", winner |-> None, is_bot_game |-> TRUE, bot_color |-> "black",
     white_player |-> "u1", black_player |-> None]

get_player_color(g0, user) ==
    IF g0.white_player = user THEN "white"
    ELSE IF g0.black_player = user THEN "black"
    ELSE IF g0.is_bot_game /\ g0.white_player = user THEN "white"
    ELSE None

update_game(g0, board_state, current_turn, move_history) ==
    [g0 EXCEPT !.board_state = board_state, !.current_turn = current_turn,
              !.move_history = move_history]

finish_game(g0, winner, status) ==
    [g0 EXCEPT !.status = IF status \in {"checkmate", "stalemate", "draw"}
                         THEN status ELSE "finished",
              !.winner = winner]

Terminal == {"checkmate", "stalemate", "draw"}

NoLast ==
    [handler |-> None, outcome |-> None, error |-> None, mover |-> None,
     from |-> NoSquare, to |-> NoSquare, piece |-> Empty, promotion |-> None,
     read_board |-> EmptyBoard, board |-> EmptyBoard, next_turn |-> None,
     game_status |-> None, winner |-> None, group |-> <<>>, scheduled |-> FALSE]

\* Rejected with the error sent to the group of the game
Rejected_to_group(handler, message) ==
    [NoLast EXCEPT !.handler = handler, !.outcome = "rejected", !.error = message,
                   !.group = <<"error">>]

Rejected(handler, message) ==
    [NoLast EXCEPT !.handler = handler, !.outcome = "rejected", !.error = message]

\* handle_move_finish creating no bot task
handle_move_finish_no_task(g0, from_pos, to_pos, promotion, piece, board, st) ==
    LET next_turn == IF g0.current_turn = "white" THEN "black" ELSE "white"
        move_history == Append(g0.move_history,
                               [from |-> from_pos, to |-> to_pos, piece |-> piece,
                                promotion |-> promotion, bot |-> FALSE])
        game_status == st[1]
        winner == st[2]
        over == game_status \in Terminal
    IN  [game |-> IF over THEN finish_game(g0, winner, game_status)
                  ELSE update_game(g0, board, next_turn, move_history),
         last |-> [NoLast EXCEPT
                     !.handler = "handle_move", !.outcome = "accepted",
                     !.mover = g0.current_turn, !.from = from_pos, !.to = to_pos,
                     !.piece = piece, !.promotion = promotion,
                     !.read_board = g0.board_state, !.board = board,
                     !.next_turn = next_turn,
                     !.game_status = game_status, !.winner = winner,
                     !.group = <<"game_update">>
                               \o (IF over THEN <<"game_over">> ELSE <<>>)
                               \o (IF ~over /\ game_status = "check"
                                   THEN <<"check_notification">> ELSE <<>>)],
         tasks |-> 0]

\* handle_move, lines 328-377, the move made:
\* [game |-> the row after, last |-> what was sent, tasks |-> tasks created]
handle_move_finish(g0, from_pos, to_pos, promotion, piece, board, st) ==
    LET next_turn == IF g0.current_turn = "white" THEN "black" ELSE "white"
        move_history == Append(g0.move_history,
                               [from |-> from_pos, to |-> to_pos, piece |-> piece,
                                promotion |-> promotion, bot |-> FALSE])
        game_status == st[1]
        winner == st[2]
        over == game_status \in Terminal
        schedule == ~over /\ g0.is_bot_game /\ next_turn = g0.bot_color
                    /\ game_status \in {"playing", "check"}
    IN  [game |-> IF over THEN finish_game(g0, winner, game_status)
                  ELSE update_game(g0, board, next_turn, move_history),
         last |-> [NoLast EXCEPT
                     !.handler = "handle_move", !.outcome = "accepted",
                     !.mover = g0.current_turn, !.from = from_pos, !.to = to_pos,
                     !.piece = piece, !.promotion = promotion,
                     !.read_board = g0.board_state, !.board = board,
                     !.next_turn = next_turn,
                     !.game_status = game_status, !.winner = winner,
                     !.group = <<"game_update">>
                               \o (IF over THEN <<"game_over">> ELSE <<>>)
                               \o (IF ~over /\ game_status = "check"
                                   THEN <<"check_notification">> ELSE <<>>)
                               \o (IF schedule THEN <<"bot_thinking">> ELSE <<>>),
                     !.scheduled = schedule],
         tasks |-> IF schedule THEN 1 ELSE 0]

\* handle_move_execute promoting to whatever piece letter the request names
handle_move_execute_any_promotion(g0, from_pos, to_pos, promotion) ==
    LET piece0 == At(g0.board_state, from_pos)
        piece == IF piece0[2] = "p"
                    /\ ((piece0[1] = "w" /\ to_pos[2] = 8) \/ (piece0[1] = "b" /\ to_pos[2] = 1))
                 THEN <<piece0[1], IF promotion # None THEN promotion ELSE "q">>
                 ELSE piece0
        next_turn == IF g0.current_turn = "white" THEN "black" ELSE "white"
    IN  Let(MovePiece(g0.board_state, from_pos, to_pos, piece),
            LAMBDA board :
                Let(check_game_status(board, next_turn),
                    LAMBDA st : handle_move_finish(g0, from_pos, to_pos, promotion,
                                                   piece, board, st)))

\* handle_move_execute promoting on rank 8 only
handle_move_execute_rank_eight(g0, from_pos, to_pos, promotion) ==
    LET piece0 == At(g0.board_state, from_pos)
        piece == IF piece0[2] = "p" /\ to_pos[2] = 8
                 THEN <<piece0[1], IF promotion \in {"q", "r", "b", "n"} THEN promotion ELSE "q">>
                 ELSE piece0
        next_turn == IF g0.current_turn = "white" THEN "black" ELSE "white"
    IN  Let(MovePiece(g0.board_state, from_pos, to_pos, piece),
            LAMBDA board :
                Let(check_game_status(board, next_turn),
                    LAMBDA st : handle_move_finish(g0, from_pos, to_pos, promotion,
                                                   piece, board, st)))

\* handle_move, lines 311-334, for a move that passed validation
handle_move_execute(g0, from_pos, to_pos, promotion) ==
    LET piece0 == At(g0.board_state, from_pos)
        piece == IF piece0[2] = "p"
                    /\ ((piece0[1] = "w" /\ to_pos[2] = 8) \/ (piece0[1] = "b" /\ to_pos[2] = 1))
                 THEN <<piece0[1], IF promotion \in {"q", "r", "b", "n"} THEN promotion ELSE "q">>
                 ELSE piece0
        next_turn == IF g0.current_turn = "white" THEN "black" ELSE "white"
    IN  Let(MovePiece(g0.board_state, from_pos, to_pos, piece),
            LAMBDA board :
                Let(check_game_status(board, next_turn),
                    LAMBDA st : handle_move_finish(g0, from_pos, to_pos, promotion,
                                                   piece, board, st)))

\* handle_move for a connection of user whose game row is found or not
handle_move(g0, found, user, from_pos, to_pos, promotion) ==
    IF ~found
    THEN [game |-> g0, last |-> Rejected("handle_move", "Game not found"), tasks |-> 0]
    ELSE IF get_player_color(g0, user) = None
    THEN [game |-> g0, tasks |-> 0,
          last |-> Rejected("handle_move", "Not a player in this game")]
    ELSE IF g0.current_turn # get_player_color(g0, user)
    THEN [game |-> g0, last |-> Rejected("handle_move", "Not your turn"), tasks |-> 0]
    ELSE Let(is_valid_move(g0.board_state, from_pos, to_pos, g0.current_turn),
             LAMBDA v :
                 IF ~v[1]
                 THEN [game |-> g0, tasks |-> 0,
                       last |-> Rejected("handle_move",
                                    IF is_in_check(g0.board_state, g0.current_turn)
                                    THEN "You are in check! You must escape check."
                                    ELSE v[2])]
                 ELSE handle_move_execute(g0, from_pos, to_pos, promotion))

BotIgnored == [NoLast EXCEPT !.handler = "make_bot_move", !.outcome = "ignored"]

\* bot_no_move ending the game on checkmate only
bot_no_move_mate_only(g0) ==
    Let(check_game_status(g0.board_state, g0.current_turn),
        LAMBDA st :
            IF st[1] = "checkmate"
            THEN [game |-> finish_game(g0, st[2], st[1]),
                  last |-> [NoLast EXCEPT !.handler = "make_bot_move", !.outcome = "no_move",
                                          !.game_status = st[1], !.winner = st[2],
                                          !.group = <<"game_over">>]]
            ELSE [game |-> g0,
                  last |-> [NoLast EXCEPT !.handler = "make_bot_move", !.outcome = "no_move",
                                          !.game_status = st[1],
                                          !.group = <<"bot_thinking">>]])

\* make_bot_move, lines 402-428: the bot returned no move
bot_no_move(g0) ==
    Let(check_game_status(g0.board_state, g0.current_turn),
        LAMBDA st :
            IF st[1] \in Terminal
            THEN [game |-> finish_game(g0, st[2], st[1]),
                  last |-> [NoLast EXCEPT !.handler = "make_bot_move", !.outcome = "no_move",
                                          !.game_status = st[1], !.winner = st[2],
                                          !.group = <<"game_over">>]]
            ELSE [game |-> g0,
                  last |-> [NoLast EXCEPT !.handler = "make_bot_move", !.outcome = "no_move",
                                          !.game_status = st[1],
                                          !.group = <<"bot_thinking">>]])

\* make_bot_move, lines 459-493, the move made
bot_move_finish(g0, from_pos, to_pos, piece, board, st) ==
    LET next_turn == IF g0.current_turn = "black" THEN "white" ELSE "black"
        move_history == Append(g0.move_history,
                               [from |-> from_pos, to |-> to_pos, piece |-> piece,
                                promotion |-> None, bot |-> TRUE])
        game_status == st[1]
        winner == st[2]
        over == game_status \in Terminal
    IN  [game |-> IF over THEN finish_game(g0, winner, game_status)
                  ELSE update_game(g0, board, next_turn, move_history),
         last |-> [NoLast EXCEPT
                     !.handler = "make_bot_move", !.outcome = "accepted",
                     !.mover = g0.current_turn, !.from = from_pos, !.to = to_pos,
                     !.piece = piece,
                     !.read_board = g0.board_state, !.board = board,
                     !.next_turn = next_turn,
                     !.game_status = game_status, !.winner = winner,
                     !.group = <<"game_update">>
                               \o (IF over THEN <<"game_over">> ELSE <<>>)
                               \o (IF ~over /\ game_status = "check"
                                   THEN <<"check_notification">> ELSE <<>>)]]

\* bot_move_execute without the promotion
bot_move_execute_no_promotion(g0, move) ==
    LET from_pos == move[1]
        to_pos == move[2]
    IN  IF ~is_valid_move(g0.board_state, from_pos, to_pos, g0.current_turn)[1]
        THEN [game |-> g0, last |-> BotIgnored]
        ELSE LET piece == At(g0.board_state, from_pos)
                 next_turn == IF g0.current_turn = "black" THEN "white" ELSE "black"
             IN  Let(MovePiece(g0.board_state, from_pos, to_pos, piece),
                     LAMBDA board :
                         Let(check_game_status(board, next_turn),
                             LAMBDA st : bot_move_finish(g0, from_pos, to_pos,
                                                         piece, board, st)))

\* make_bot_move, lines 430-464: the bot returned move
bot_move_execute(g0, move) ==
    LET from_pos == move[1]
        to_pos == move[2]
    IN  IF ~is_valid_move(g0.board_state, from_pos, to_pos, g0.current_turn)[1]
        THEN [game |-> g0, last |-> BotIgnored]
        ELSE LET piece0 == At(g0.board_state, from_pos)
                 piece == IF piece0[2] = "p"
                             /\ ((piece0[1] = "w" /\ to_pos[2] = 8)
                                 \/ (piece0[1] = "b" /\ to_pos[2] = 1))
                          THEN <<piece0[1], "q">>
                          ELSE piece0
                 next_turn == IF g0.current_turn = "black" THEN "white" ELSE "black"
             IN  Let(MovePiece(g0.board_state, from_pos, to_pos, piece),
                     LAMBDA board :
                         Let(check_game_status(board, next_turn),
                             LAMBDA st : bot_move_finish(g0, from_pos, to_pos,
                                                         piece, board, st)))

\* make_bot_move without the test of the status
make_bot_move_status_unread(g0, move) ==
    IF g0.current_turn # g0.bot_color THEN [game |-> g0, last |-> BotIgnored]
    ELSE IF move = NoMove THEN bot_no_move(g0)
    ELSE bot_move_execute(g0, move)

\* make_bot_move after its sleep, the bot having chosen move (NoMove: None)
make_bot_move(g0, move) ==
    IF g0.status # "playing" THEN [game |-> g0, last |-> BotIgnored]
    ELSE IF g0.current_turn # g0.bot_color THEN [game |-> g0, last |-> BotIgnored]
    ELSE IF move = NoMove THEN bot_no_move(g0)
    ELSE bot_move_execute(g0, move)

handle_resign(g0, found, user) ==
    IF ~found \/ get_player_color(g0, user) = None
    THEN [game |-> g0, last |-> [NoLast EXCEPT !.handler = "handle_resign",
                                              !.outcome = "ignored"]]
    ELSE LET winner == IF get_player_color(g0, user) = "white" THEN "black" ELSE "white"
         IN  [game |-> finish_game(g0, winner, "finished"),
              last |-> [NoLast EXCEPT !.handler = "handle_resign", !.outcome = "resigned",
                                      !.winner = winner, !.group = <<"game_over">>]]

(***************************************************************************)
(* The game: created, or already played along one of StartLines (every     *)
(* move of a line is replayed through the handlers and must be accepted),  *)
(* then MaxMoves further accepted moves under any requests.                *)
(***************************************************************************)
MaxMoves == 1

StartLines ==
    { <<>>,
      \* 1.f3 e5 2.g4 : black mates with Qh4
      << <<<<6, 2>>, <<6, 3>>>>, <<<<5, 7>>, <<5, 5>>>>, <<<<7, 2>>, <<7, 4>>>> >>,
      \* 1.e4 f6 2.Qh5+ : black is in check, g6 is the only answer
      << <<<<5, 2>>, <<5, 4>>>>, <<<<6, 7>>, <<6, 6>>>>, <<<<4, 1>>, <<8, 5>>>> >>
    }

PlayerOf(g0, color) == IF color = "white" THEN g0.white_player ELSE g0.black_player

\* the next move of a line: by the bot when it is the bot's turn (the move
\* must be one the bot may choose, its task pending), else by the player
\* whose turn it is.  st = [game, tasks, last, ok]
ReplayMove(st, m) ==
    IF st.game.is_bot_game /\ st.game.current_turn = st.game.bot_color
    THEN Let(make_bot_move(st.game, m),
             LAMBDA r : [game |-> r.game, tasks |-> st.tasks - 1, last |-> r.last,
                         ok |-> /\ st.tasks > 0
                                /\ m \in make_move(st.game.board_state, st.game.current_turn)
                                /\ r.last.outcome = "accepted"])
    ELSE Let(handle_move(st.game, TRUE, PlayerOf(st.game, st.game.current_turn),
                         m[1], m[2], None),
             LAMBDA r : [game |-> r.game, tasks |-> st.tasks + r.tasks, last |-> r.last,
                         ok |-> r.last.outcome = "accepted"])

RECURSIVE Replay(_, _, _)
\* st after the moves i.. of line
Replay(st, line, i) ==
    IF i > Len(line) \/ ~st.ok THEN st
    ELSE Let(ReplayMove(st, line[i]), LAMBDA next : Replay(next, line, i + 1))

NoRes == [op |-> None, out |-> None, after |-> {}]

Init ==
    /\ \E g0 \in {NewMatchGame, NewBotGame}, line \in StartLines :
           \E st \in {Replay([game |-> g0, tasks |-> 0, last |-> NoLast, ok |-> TRUE],
                             line, 1)} :
               /\ st.ok
               /\ game = st.game
               /\ bot_tasks = st.tasks
               /\ last = st.last
               /\ accepted = [total |-> Len(line), left |-> MaxMoves]
    /\ inflight = <<>>
    /\ InitLobby
    /\ pos = initialize_board
    /\ side = "white"
    /\ res = NoRes

Promotions == {"q", "r", "b", "n", None, "k"}

\* the promotion a request carries: any, when the move takes a pawn to its
\* last rank, else none
PromotionInputs(g0, from_pos, to_pos) ==
    IF At(g0.board_state, from_pos)[2] = "p" /\ to_pos[2] \in {1, 8}
    THEN Promotions ELSE {None}

Count(r) ==
    IF r.last.outcome = "accepted"
    THEN [total |-> accepted.total + 1, left |-> accepted.left - 1]
    ELSE accepted

RejectReasons ==
    {MsgNoPiece, MsgNotYours, MsgSameSquare, MsgOwnPiece, MsgIllegal, MsgKingInCheck}

\* The requests a player on turn may send, one for each different effect.
\* For a from square that is empty or holds a piece of the other side the
\* verdict does not depend on to (is_valid_move returns before it reads
\* to_pos), so one to is drawn; for a from square with a piece of the side on
\* turn every to is drawn.  Of the rejected requests one is kept for each
\* message (a rejected request has the effect of any other rejected with the
\* same message); every accepted request is kept.
MoveInputs(g0) ==
    LET code == ColorCode(g0.current_turn)
        own == {s \in Squares : At(g0.board_state, s)[1] = code}
        candidates == {<<s, s>> : s \in Squares \ own} \cup (own \X Squares)
    IN  Let({<<m, is_valid_move(g0.board_state, m[1], m[2], g0.current_turn)[2]>> :
                m \in candidates},
            LAMBDA verdicts :
                {v[1] : v \in {w \in verdicts : w[2] = MsgValid}}
                \cup
                {(CHOOSE v \in verdicts : v[2] = msg)[1] :
                    msg \in {v[2] : v \in verdicts} \ {MsgValid}})

HandleMove ==
    \E found \in BOOLEAN, user \in Users :
        \E m \in IF found /\ get_player_color(game, user) = game.current_turn
                 THEN MoveInputs(game) ELSE {<<<<5, 2>>, <<5, 4>>>>} :
            \E promotion \in PromotionInputs(game, m[1], m[2]) :
                \E r \in {handle_move(game, found, user, m[1], m[2], promotion)} :
                    /\ r.last.outcome = "accepted" => accepted.left > 0
                    /\ game' = r.game
                    /\ bot_tasks' = bot_tasks + r.tasks
                    /\ last' = r.last
                    /\ accepted' = Count(r)
                    /\ UNCHANGED <<inflight, engine_vars, lobby_vars>>

MakeBotMove ==
    /\ bot_tasks > 0
    /\ \E move \in IF game.status = "playing" /\ game.current_turn = game.bot_color
                   THEN make_move(game.board_state, game.current_turn)
                   ELSE {NoMove} :
           \E r \in {make_bot_move(game, move)} :
               /\ r.last.outcome = "accepted" => accepted.left > 0
               /\ game' = r.game
               /\ bot_tasks' = bot_tasks - 1
               /\ last' = r.last
               /\ accepted' = Count(r)
               /\ UNCHANGED <<inflight, engine_vars, lobby_vars>>

HandleResign ==
    \E found \in BOOLEAN, user \in Users :
        \E r \in {handle_resign(game, found, user)} :
            /\ game' = r.game
            /\ last' = r.last
            /\ UNCHANGED <<bot_tasks, accepted, inflight>>
            /\ UNCHANGED <<engine_vars, lobby_vars>>

Next == HandleMove \/ MakeBotMove \/ HandleResign

Spec == Init /\ [][Next]_vars

\* the event loop runs a task it was handed (asyncio.create_task, line 377)
SpecFair == Spec /\ WF_vars(MakeBotMove)

(***************************************************************************)
(* The handlers with their awaits.  A handler reads the row (get_game,     *)
(* get_game_by_code), computes without giving up control, and then awaits  *)
(* update_game or finish_game, which fetch the row again and set their     *)
(* fields; nothing in the consumer keeps another handler of the game from  *)
(* running between the two.  inflight holds the handlers that have read    *)
(* and computed and have not written yet.                                  *)
(***************************************************************************)
MaxInflight == 2
MaxWrites == 2

\* the handler goes on to write: a move made, a game found over, a resignation
Writes(r) ==
    \/ r.last.outcome \in {"accepted", "resigned"}
    \/ r.last.outcome = "no_move" /\ r.last.game_status \in Terminal

\* The row after the write of a handler that computed p: finish_game for a
\* resignation or an ended game, else update_game, on the row as it is
\* stored when the write runs.
write_back(g, p) ==
    IF p.last.outcome = "resigned" THEN finish_game(g, p.last.winner, "finished")
    ELSE IF p.last.game_status \in Terminal
    THEN finish_game(g, p.last.winner, p.last.game_status)
    ELSE update_game(g, p.last.board, p.last.next_turn, p.game.move_history)

RemoveAt(seq, i) == SubSeq(seq, 1, i - 1) \o SubSeq(seq, i + 1, Len(seq))

InitAsync ==
    /\ game \in {NewMatchGame, NewBotGame}
    /\ bot_tasks = 0
    /\ last = NoLast
    /\ accepted = [total |-> 0, left |-> MaxWrites]
    /\ inflight = <<>>
    /\ InitLobby
    /\ pos = initialize_board
    /\ side = "white"
    /\ res = NoRes

\* the requests drawn here, all from a square of the e-file: the ones
\* is_valid_move accepts, and the one to the from square itself
AsyncInputs(g0) ==
    {m \in {s \in Squares : s[1] = 5} \X Squares :
        m[1] = m[2] \/ is_valid_move(g0.board_state, m[1], m[2], g0.current_turn)[1]}

\* a handler has read the row and computed r: it stops there, or goes on to
\* its write
Begin(r) ==
    IF Writes(r)
    THEN /\ Len(inflight) < MaxInflight
         /\ r.last.outcome = "accepted" => accepted.left > 0
         /\ inflight' = Append(inflight, [read |-> game, game |-> r.game, last |-> r.last])
         /\ accepted' = IF r.last.outcome = "accepted"
                        THEN [accepted EXCEPT !.left = @ - 1] ELSE accepted
         /\ UNCHANGED <<game, last>>
    ELSE /\ last' = r.last
         /\ UNCHANGED <<game, inflight, accepted>>

\* handle_move up to its write, lines 267-334
BeginMove ==
    \E found \in BOOLEAN, user \in Users :
        \E m \in IF found /\ get_player_color(game, user) = game.current_turn
                 THEN AsyncInputs(game) ELSE {<<<<5, 2>>, <<5, 4>>>>} :
            \E promotion \in PromotionInputs(game, m[1], m[2]) :
                \E r \in {handle_move(game, found, user, m[1], m[2], promotion)} :
                    /\ Begin(r)
                    /\ UNCHANGED <<bot_tasks, engine_vars, lobby_vars>>

\* handle_resign up to its write, lines 495-503
BeginResign ==
    \E found \in BOOLEAN, user \in Users :
        \E r \in {handle_resign(game, found, user)} :
            /\ Begin(r)
            /\ UNCHANGED <<bot_tasks, engine_vars, lobby_vars>>

\* make_bot_move from the end of its sleep up to its write; move is what
\* make_move gives if it is called
BotRun ==
    /\ bot_tasks > 0
    /\ \E move \in make_move(game.board_state, game.current_turn) :
           \E r \in {make_bot_move(game, move)} :
               /\ Begin(r)
               /\ bot_tasks' = bot_tasks - 1
               /\ UNCHANGED <<engine_vars, lobby_vars>>

\* the write of a handler and what follows it: the messages sent, and the
\* bot task created when the move read called for one
Complete ==
    \E i \in DOMAIN inflight :
        /\ game' = write_back(game, inflight[i])
        /\ last' = inflight[i].last
        /\ inflight' = RemoveAt(inflight, i)
        /\ bot_tasks' = bot_tasks + (IF inflight[i].last.scheduled THEN 1 ELSE 0)
        /\ accepted' = IF inflight[i].last.outcome = "accepted"
                       THEN [accepted EXCEPT !.total = @ + 1] ELSE accepted
        /\ UNCHANGED <<engine_vars, lobby_vars>>

NextAsync == BeginMove \/ BeginResign \/ BotRun \/ Complete

SpecAsync == InitAsync /\ [][NextAsync]_vars

(***************************************************************************)
(* The engine's functions applied to a position: pos and side are the      *)
(* arguments, res what one call returned and left of its argument.         *)
(***************************************************************************)
NoGame == [total |-> 0, left |-> 0]

\* is_valid_move for every pair of squares
Validate ==
    /\ res.op = None
    /\ res' = [op |-> "is_valid_move",
               out |-> {<<m[1], m[2], is_valid_move(pos, m[1], m[2], side)[2]>> :
                           m \in Squares \X Squares},
               after |-> {is_valid_move_leaves(pos, m[1], m[2], side) :
                             m \in Squares \X Squares}]
    /\ UNCHANGED <<pos, side, game_vars, lobby_vars>>

Classify ==
    /\ res.op = None
    /\ res' = [op |-> "check_game_status",
               out |-> check_game_status(pos, side),
               after |-> has_legal_moves_leaves(pos, side)]
    /\ UNCHANGED <<pos, side, game_vars, lobby_vars>>

Enumerate ==
    /\ res.op = None
    /\ res' = [op |-> "get_all_legal_moves",
               out |-> get_all_legal_moves(pos, side),
               after |-> {pos}]
    /\ UNCHANGED <<pos, side, game_vars, lobby_vars>>

BotMove ==
    /\ res.op = None
    /\ \E move \in make_move(pos, side) :
           res' = [op |-> "make_move", out |-> move,
                   after |-> make_move_leaves(pos, side)]
    /\ UNCHANGED <<pos, side, game_vars, lobby_vars>>

\* is_square_under_attack for every square and either side
Attacks ==
    /\ res.op = None
    /\ res' = [op |-> "is_square_under_attack",
               out |-> {q \in Squares \X Colors : is_square_under_attack(pos, q[1], q[2])},
               after |-> {pos}]
    /\ UNCHANGED <<pos, side, game_vars, lobby_vars>>

NextEngine == Validate \/ Classify \/ Enumerate \/ BotMove

RECURSIVE Place(_, _)
\* board with the pieces of the set put on it
Place(board, pieces) ==
    IF pieces = {} THEN board
    ELSE LET x == CHOOSE y \in pieces : TRUE
         IN  Place([board EXCEPT ![Idx(x[2])] = x[1]], pieces \ {x})

\* a position a game can be in with side to move: one king each, the kings
\* not next to each other, no pawn on a first or last rank, and the side
\* that has just moved not in check
Playable(board, color) ==
    LET wk == FindKing(board, <<"w", "k">>)
        bk == FindKing(board, <<"b", "k">>)
    IN  /\ wk # NoSquare /\ bk # NoSquare
        /\ abs(wk[1] - bk[1]) > 1 \/ abs(wk[2] - bk[2]) > 1
        /\ \A s \in Squares : At(board, s)[2] = "p" => s[2] \in 2..7
        /\ ~is_in_check(board, IF color = "white" THEN "black" ELSE "white")

\* positions with the two kings only, every placement
TwoKings ==
    {Place(EmptyBoard, {<<<<"w", "k">>, k[1]>>, <<<<"b", "k">>, k[2]>>}) :
        k \in {q \in Squares \X Squares : q[1] # q[2]}}

InitKings ==
    /\ pos \in TwoKings
    /\ side \in Colors
    /\ res = NoRes
    /\ game = NewMatchGame /\ bot_tasks = 0 /\ last = NoLast /\ accepted = NoGame
    /\ inflight = <<>>
    /\ InitLobby

NextKings == Classify

SpecKings == InitKings /\ [][NextKings]_vars

\* positions with the kings and at most MaxExtra further pieces
MaxExtra == 2

\* <<white king, black king>>
KingPairs ==
    { <<<<5, 1>>, <<5, 3>>>>,   \* e1 e3
      <<<<7, 6>>, <<8, 8>>>>,   \* g6 h8
      <<<<2, 6>>, <<1, 8>>>>,   \* b6 a8
      <<<<5, 1>>, <<5, 8>>>> }  \* e1 e8

ExtraPieces ==
    { <<<<"w", "q">>, <<7, 7>>>>,   \* g7
      <<<<"w", "q">>, <<6, 7>>>>,   \* f7
      <<<<"w", "b">>, <<3, 7>>>>,   \* c7
      <<<<"w", "r">>, <<1, 1>>>>,   \* a1
      <<<<"w", "n">>, <<4, 2>>>>,   \* d2
      <<<<"w", "p">>, <<5, 2>>>>,   \* e2
      <<<<"w", "p">>, <<4, 7>>>>,   \* d7
      <<<<"b", "q">>, <<8, 4>>>>,   \* h4
      <<<<"b", "r">>, <<5, 5>>>>,   \* e5
      <<<<"b", "b">>, <<2, 4>>>>,   \* b4
      <<<<"b", "n">>, <<6, 3>>>>,   \* f3
      <<<<"b", "p">>, <<4, 2>>>>,   \* d2
      <<<<"b", "p">>, <<6, 7>>>>,   \* f7
      <<<<"b", "p">>, <<4, 3>>>> }  \* d3

Positions ==
    {Place(EmptyBoard, x[2] \cup {<<<<"w", "k">>, x[1][1]>>, <<<<"b", "k">>, x[1][2]>>}) :
        x \in {y \in KingPairs \X SUBSET ExtraPieces :
                  /\ Cardinality(y[2]) <= MaxExtra
                  /\ Cardinality({z[2] : z \in y[2]} \cup {y[1][1], y[1][2]})
                         = Cardinality(y[2]) + 2}}

InitRules ==
    /\ pos \in Positions
    /\ side \in Colors
    /\ Playable(pos, side)
    /\ res = NoRes
    /\ game = NewMatchGame /\ bot_tasks = 0 /\ last = NoLast /\ accepted = NoGame
    /\ inflight = <<>>
    /\ InitLobby

SpecRules == InitRules /\ [][NextEngine]_vars

\* the attack query alone, on the same positions
\* the two ways a caller names a side
Encodings == {"white", "black", "w", "b"}

\* ChessBot.is_square_under_attack for every square and either side, named
\* either way
BotAttacks ==
    /\ res.op = None
    /\ res' = [op |-> "ChessBot.is_square_under_attack",
               out |-> {q \in Squares \X Encodings :
                           ChessBot_is_square_under_attack(pos, q[1], q[2])},
               after |-> {pos}]
    /\ UNCHANGED <<pos, side, game_vars, lobby_vars>>

NextAttacks == Attacks \/ BotAttacks

SpecAttacks == InitRules /\ [][NextAttacks]_vars

(***************************************************************************)
(* Matchmaking: connections are made and closed in any order; a connect    *)
(* handler runs from its accept to the await of create_chess_game without  *)
(* giving up control, and a consumer handles its events one at a time, so  *)
(* a connection is closed only after its connect handler is done.          *)
(***************************************************************************)
InitMatch ==
    /\ InitLobby
    /\ game = NewMatchGame /\ bot_tasks = 0 /\ last = NoLast /\ accepted = NoGame
    /\ inflight = <<>>
    /\ pos = initialize_board /\ side = "white" /\ res = NoRes

\* connect, lines 169-187, and try_match up to create_chess_game; a message
\* holds 0 for a field its type does not have
Connect ==
    \E c \in Channels, u \in UserIds :
        /\ conns[c].state = "new"
        /\ conns' = [conns EXCEPT ![c] = [state |-> "open", user |-> u]]
        /\ \E r \in {try_match(join_waiting(waiting_players, c, u))} :
               /\ waiting_players' = r.waiting
               /\ IF r.pair # <<>>
                  THEN /\ matching' = matching \cup {[by |-> c, p1 |-> r.pair[1],
                                                       p2 |-> r.pair[2]]}
                       /\ sent' = sent
                  ELSE /\ matching' = matching
                       /\ sent' = sent \cup {[channel |-> c, type |-> "waiting",
                                               queue_position |-> Len(r.waiting),
                                               game_code |-> 0]}
        /\ UNCHANGED <<chess_games, game_vars, engine_vars>>

\* try_match, lines 203-210: the game is created and both players are told
CreateGame ==
    \E m \in matching :
        /\ chess_games' = create_chess_game(chess_games, m.p1.user_id, m.p2.user_id)
        /\ sent' = sent \cup {[channel |-> p.channel, type |-> "match_found",
                                queue_position |-> 0,
                                game_code |-> chess_games'[Len(chess_games')].code] :
                                   p \in {m.p1, m.p2}}
        /\ matching' = matching \ {m}
        /\ UNCHANGED <<waiting_players, conns, game_vars, engine_vars>>

\* disconnect, lines 189-194
Disconnect ==
    \E c \in Channels :
        /\ conns[c].state = "open"
        /\ \A m \in matching : m.by # c
        /\ conns' = [conns EXCEPT ![c].state = "closed"]
        /\ waiting_players' = leave_waiting(waiting_players, c)
        /\ UNCHANGED <<matching, chess_games, sent, game_vars, engine_vars>>

NextMatch == Connect \/ CreateGame \/ Disconnect

SpecMatch == InitMatch /\ [][NextMatch]_vars

(***************************************************************************)
(* The properties.  Their vocabulary is stated apart from the functions    *)
(* they are about.                                                         *)
(***************************************************************************)
Opposite(color) == IF color = "white" THEN "black" ELSE "white"

KingOf(board, color) == FindKing(board, <<ColorCode(color), "k">>)

\* Chebyshev distance 1
Adjacent(s, t) == s # t /\ abs(s[1] - t[1]) <= 1 /\ abs(s[2] - t[2]) <= 1

\* some piece of color could capture on square
AttackedBy(board, square, color) ==
    \E s \in Squares :
        /\ At(board, s)[1] = ColorCode(color)
        /\ is_pseudo_legal_move(board, s, square, At(board, s))

InCheck(board, color) ==
    KingOf(board, color) # NoSquare
    /\ AttackedBy(board, KingOf(board, color), Opposite(color))

PieceCount(board) == Cardinality({s \in Squares : At(board, s) # Empty})

HasMinor(board) == \E s \in Squares : At(board, s)[2] \in {"n", "b"}

ValidPairs(board, color) ==
    {m \in Squares \X Squares : is_valid_move(board, m[1], m[2], color)[1]}

\* C1: after a move is accepted, from a human or from the bot, the king of
\* the side that moved is on the board sent and no piece of the other side
\* attacks it; so a side in check has only moves accepted that end the check.
C1_KingSafeAfterAcceptedMove ==
    last.outcome = "accepted" =>
        /\ KingOf(last.board, last.mover) # NoSquare
        /\ ~AttackedBy(last.board, KingOf(last.board, last.mover), Opposite(last.mover))
        /\ ~is_square_under_attack(last.board, KingOf(last.board, last.mover),
                                   Opposite(last.mover))

\* a move accepted from a side that was in check
C1_Witness ==
    /\ last.outcome = "accepted"
    /\ InCheck(last.read_board, last.mover)
    /\ ~InCheck(last.board, last.mover)

\* C2: get_all_legal_moves returns exactly the pairs of squares is_valid_move
\* finds valid, and has_legal_moves holds exactly when there is one.
C2_EnumerationIsValidation ==
    res.op = "get_all_legal_moves" =>
        /\ res.out = ValidPairs(pos, side)
        /\ has_legal_moves(pos, side) <=> res.out # {}

\* an enumeration that leaves out a move of a pinned or checked side
C2_Witness ==
    /\ res.op = "get_all_legal_moves"
    /\ res.out # {}
    /\ res.out = ValidPairs(pos, side)
    /\ \E m \in pseudo_moves(pos, side) : m \notin res.out

\* C3: check_game_status answers checkmate, the winner the side not to move,
\* exactly when the side to move is in check and has no legal move.
C3_Checkmate ==
    res.op = "check_game_status" =>
        ((res.out[1] = "checkmate" /\ res.out[2] = Opposite(side))
            <=> (InCheck(pos, side) /\ get_all_legal_moves(pos, side) = {}))
        /\ (res.out[1] = "checkmate" => res.out[2] = Opposite(side))

C3_Witness ==
    /\ res.op = "check_game_status"
    /\ res.out[1] = "checkmate"
    /\ res.out[2] = Opposite(side)
    /\ InCheck(pos, side)

\* C4: check_game_status answers stalemate, with no winner, exactly when the
\* side to move is not in check and has no legal move.
C4_Stalemate ==
    res.op = "check_game_status" =>
        ((res.out[1] = "stalemate" /\ res.out[2] = None)
            <=> (~InCheck(pos, side) /\ get_all_legal_moves(pos, side) = {}))
        /\ (res.out[1] = "stalemate" => res.out[2] = None)

C4_Witness ==
    /\ res.op = "check_game_status"
    /\ res.out[1] = "stalemate"
    /\ res.out[2] = None
    /\ ~InCheck(pos, side)

\* C5: when the side to move has a legal move, check_game_status answers
\* draw exactly when the board holds 2 pieces, or 3 of which one is a knight
\* or a bishop, and else check when the side is in check and playing when it
\* is not; when the side has no legal move the material decides nothing.
C5_Material ==
    res.op = "check_game_status" =>
        LET material == PieceCount(pos) = 2 \/ (PieceCount(pos) = 3 /\ HasMinor(pos))
        IN  IF get_all_legal_moves(pos, side) # {}
            THEN /\ res.out[1] = "draw" <=> material
                 /\ ~material =>
                        res.out[1] = IF InCheck(pos, side) THEN "check" ELSE "playing"
            ELSE res.out[1] \in {"checkmate", "stalemate"}

\* three pieces, one a bishop, and the side to move has no move: stalemate
C5_Witness ==
    /\ res.op = "check_game_status"
    /\ PieceCount(pos) = 3 /\ HasMinor(pos)
    /\ get_all_legal_moves(pos, side) = {}
    /\ res.out[1] = "stalemate"

\* C6: with a white king and a black king alone on two squares, whichever
\* side is to move, check_game_status answers draw.
C6_TwoKingsDraw ==
    res.op = "check_game_status" /\ PieceCount(pos) = 2 => res.out[1] = "draw"

\* the king to move stands in a corner
C6_Witness ==
    /\ res.op = "check_game_status"
    /\ PieceCount(pos) = 2
    /\ KingOf(pos, side) = <<1, 1>>
    /\ res.out[1] = "draw"

\* C7: on the board of initialize_board white has 20 legal moves, 8 single
\* and 8 double pawn advances and 4 knight moves, and after any one accepted
\* white move black has 20.
C7_TwentyMoves ==
    /\ game.move_history = <<>> =>
           LET moves == get_all_legal_moves(game.board_state, "white")
               of(type, step) ==
                   {m \in moves : /\ At(game.board_state, m[1])[2] = type
                                   /\ abs(m[2][2] - m[1][2]) = step}
           IN  /\ game.board_state = initialize_board
               /\ Cardinality(moves) = 20
               /\ Cardinality({m \in of("p", 1) : m[2][1] = m[1][1]}) = 8
               /\ Cardinality({m \in of("p", 2) : m[2][1] = m[1][1]}) = 8
               /\ Cardinality(of("n", 1) \cup of("n", 2)) = 4
    /\ Len(game.move_history) = 1 =>
           Cardinality(get_all_legal_moves(game.board_state, "black")) = 20

\* one white move accepted, black to move
C7_Witness ==
    /\ Len(game.move_history) = 1
    /\ last.outcome = "accepted"
    /\ game.current_turn = "black"
    /\ game.board_state = last.board
    /\ game.board_state # initialize_board

\* C8: is_valid_move, check_game_status and make_move leave the position
\* handed to them as it was, whatever they answer.
C8_PositionUnchanged ==
    res.op \in {"is_valid_move", "check_game_status", "make_move"} => res.after = {pos}

\* is_valid_move has simulated moves: one it found valid, one it rejected
\* for the king's safety
C8_Witness ==
    /\ res.op = "is_valid_move"
    /\ \E v \in res.out : v[3] = MsgValid
    /\ \E v \in res.out : v[3] = MsgKingInCheck
    /\ res.after = {pos}

\* a move of the king of side to a square next to the other king
KingNextToKing(v) ==
    /\ At(pos, v[1]) = <<ColorCode(side), "k">>
    /\ KingOf(pos, Opposite(side)) # NoSquare
    /\ Adjacent(v[2], KingOf(pos, Opposite(side)))

\* C9 as stated: every move of the side's king to a square next to the
\* other king is rejected with the reason of the geometry.
C9_Original ==
    res.op = "is_valid_move" =>
        \A v \in res.out : KingNextToKing(v) => v[3] = MsgIllegal

\* C9: every move of the side's king to another square, next to the other
\* king, is rejected; the reason is the one of the geometry when the square
\* holds no piece of the side, and the one of capturing an own piece when it
\* does.
C9_KingNextToKingRejected ==
    res.op = "is_valid_move" =>
        \A v \in res.out :
            KingNextToKing(v) /\ v[2] # v[1] =>
                v[3] = IF At(pos, v[2])[1] = ColorCode(side) THEN MsgOwnPiece
                       ELSE MsgIllegal

\* the king is one step from an empty square next to the other king
C9_Witness ==
    /\ res.op = "is_valid_move"
    /\ \E v \in res.out :
           /\ KingNextToKing(v)
           /\ Adjacent(v[1], v[2])
           /\ At(pos, v[2]) = Empty
           /\ v[3] = MsgIllegal

\* the reason of the first of the six checks that fails
FirstFailure(board, from_pos, to_pos, color) ==
    IF At(board, from_pos) = Empty THEN MsgNoPiece
    ELSE IF At(board, from_pos)[1] # ColorCode(color) THEN MsgNotYours
    ELSE IF to_pos = from_pos THEN MsgSameSquare
    ELSE IF At(board, to_pos)[1] = ColorCode(color) THEN MsgOwnPiece
    ELSE IF to_pos \notin get_piece_pseudo_moves(from_pos, At(board, from_pos), board)
         THEN MsgIllegal
    ELSE IF InCheck(MovePiece(board, from_pos, to_pos, At(board, from_pos)), color)
         THEN MsgKingInCheck
    ELSE MsgValid

\* C10: is_valid_move answers with the reason of the first of its six checks
\* that fails, in the order source occupied, piece of the side, destination
\* differs, destination not an own piece, reachable, king safe; the six
\* reasons differ; a move that passes the six is valid.
C10_CheckOrder ==
    /\ Cardinality(RejectReasons \cup {MsgValid}) = 7
    /\ res.op = "is_valid_move" =>
           \A v \in res.out :
               /\ v[3] = FirstFailure(pos, v[1], v[2], side)
               /\ is_valid_move(pos, v[1], v[2], side)[1] <=> v[3] = MsgValid

\* every one of the six reasons and the valid verdict are given
C10_Witness ==
    /\ res.op = "is_valid_move"
    /\ {v[3] : v \in res.out} = RejectReasons \cup {MsgValid}

(***************************************************************************)
(* Positions that lack the king of the side asked about.                   *)
(***************************************************************************)
\* is_in_check(pos, side)
QueryCheck ==
    /\ res.op = None
    /\ res' = [op |-> "is_in_check", out |-> is_in_check(pos, side), after |-> {pos}]
    /\ UNCHANGED <<pos, side, game_vars, lobby_vars>>

\* the positions of Positions with the king of color taken off
WithoutKing(color) ==
    {[p EXCEPT ![Idx(FindKing(p, <<ColorCode(color), "k">>))] = Empty] : p \in Positions}

InitNoKing ==
    /\ side \in Colors
    /\ pos \in WithoutKing(side)
    /\ res = NoRes
    /\ game = NewMatchGame /\ bot_tasks = 0 /\ last = NoLast /\ accepted = NoGame
    /\ inflight = <<>>
    /\ InitLobby

NextNoKing == Validate \/ QueryCheck

SpecNoKing == InitNoKing /\ [][NextNoKing]_vars

\* C11: asked about a side whose king is not on the board, is_valid_move
\* does not answer with the reason of a move that exposes the king, and
\* is_in_check does not answer 'not in check'.
C11_KingNotFoundDistinct ==
    KingOf(pos, side) = NoSquare =>
        /\ res.op = "is_valid_move" => \A v \in res.out : v[3] # MsgKingInCheck
        /\ res.op = "is_in_check" => res.out # FALSE

\* the squares strictly between s and t on a line
Between(s, t) ==
    LET n == IF abs(t[1] - s[1]) > abs(t[2] - s[2]) THEN abs(t[1] - s[1])
             ELSE abs(t[2] - s[2])
    IN  {<<s[1] + i * ((t[1] - s[1]) \div n), s[2] + i * ((t[2] - s[2]) \div n)>> :
            i \in 1..(n - 1)}

\* the piece on s attacks t
PieceAttacks(board, s, t) ==
    LET piece == At(board, s)
        dx == abs(t[1] - s[1])
        dy == abs(t[2] - s[2])
        orthogonal == s # t /\ (dx = 0 \/ dy = 0)
        diagonal == s # t /\ dx = dy
        clear == \A q \in Between(s, t) : At(board, q) = Empty
    IN  CASE piece[2] = "p" -> dx = 1 /\ t[2] = s[2] + (IF piece[1] = "w" THEN 1 ELSE -1)
          [] piece[2] = "n" -> {dx, dy} = {1, 2}
          [] piece[2] = "k" -> Adjacent(s, t)
          [] piece[2] = "r" -> orthogonal /\ clear
          [] piece[2] = "b" -> diagonal /\ clear
          [] piece[2] = "q" -> (orthogonal \/ diagonal) /\ clear
          [] OTHER -> FALSE

\* C12: is_square_under_attack holds exactly when a piece of the side attacks
\* the square: a pawn from one of the two squares diagonally behind it, a
\* knight at an L-offset, a king next to it, a rook, bishop or queen that is
\* the first piece on one of its rays; squares off the board never count.
C12_AttackRules ==
    res.op = "is_square_under_attack" =>
        res.out = {q \in Squares \X Colors :
                      \E s \in Squares : /\ At(pos, s)[1] = ColorCode(q[2])
                                          /\ PieceAttacks(pos, s, q[1])}

\* a pawn attacks a square diagonally ahead of it and not the one straight
\* ahead, and a rook or queen is shut off by a piece on its ray
C12_Witness ==
    /\ res.op = "is_square_under_attack"
    /\ \E s \in Squares :
           /\ At(pos, s) = <<"w", "p">>
           /\ <<<<s[1], s[2] + 1>>, "white">> \notin res.out
           /\ \E d \in {-1, 1} : <<<<s[1] + d, s[2] + 1>>, "white">> \in res.out
    /\ \E s \in Squares, t \in Squares :
           /\ At(pos, s)[2] \in {"r", "q"}
           /\ s[1] = t[1] /\ s # t
           /\ \E q \in Between(s, t) : At(pos, q) # Empty
           /\ <<t, IF At(pos, s)[1] = "w" THEN "white" ELSE "black">> \notin res.out

\* the moves of the side's pieces that is_valid_move accepts
LegalMoves(board, color) ==
    {<<s, t>> : <<s, t>> \in
        {m \in {q \in Squares : At(board, q)[1] = ColorCode(color)} \X Squares :
            is_valid_move(board, m[1], m[2], color)[1]}}

\* C13: a move make_move returns is one of the side's legal moves and
\* is_valid_move accepts it on the same position; when the side has exactly
\* one legal move, that move is what make_move returns, whatever it draws.
C13_BotMoveIsLegal ==
    res.op = "make_move" =>
        /\ res.out # NoMove =>
               /\ res.out \in get_all_legal_moves(pos, side)
               /\ is_valid_move(pos, res.out[1], res.out[2], side)[1]
        /\ Cardinality(LegalMoves(pos, side)) = 1 =>
               /\ res.out \in LegalMoves(pos, side)
               /\ make_move(pos, side) = LegalMoves(pos, side)

\* the side has one legal move and make_move has returned it
C13_Witness ==
    /\ res.op = "make_move"
    /\ Cardinality(LegalMoves(pos, side)) = 1
    /\ res.out \in LegalMoves(pos, side)

\* the legal moves onto an occupied square
LegalCaptures(board, color) ==
    {m \in LegalMoves(board, color) : At(board, m[2]) # Empty}

\* the legal moves of a piece other than the king onto an empty square
LegalBlocks(board, color) ==
    {m \in LegalMoves(board, color) :
        At(board, m[2]) = Empty /\ At(board, m[1])[2] # "k"}

\* C14: in check, make_move returns a capture when a legal move captures, a
\* block only when no legal move captures, and a king move that does not
\* capture only when there is neither a capture nor a block.
C14_CaptureBlockKing ==
    res.op = "make_move" /\ res.out # NoMove /\ InCheck(pos, side) =>
        IF LegalCaptures(pos, side) # {} THEN res.out \in LegalCaptures(pos, side)
        ELSE IF LegalBlocks(pos, side) # {} THEN res.out \in LegalBlocks(pos, side)
        ELSE At(pos, res.out[1])[2] = "k"

\* the squares of the pieces of the side
PiecesOf(board, color) == {s \in Squares : At(board, s)[1] = ColorCode(color)}

\* the destination of the move is attacked by a piece on one of the squares
\* once the move is made
LandsAttacked(board, m, foes) ==
    \E s \in foes \ {m[2]} :
        PieceAttacks(MovePiece(board, m[1], m[2], At(board, m[1])), s, m[2])

\* The legal moves by whether they capture and whether they land safe:
\* [sc, sm, rc, rm], the safe captures, safe moves, risky captures and risky
\* moves
Buckets(board, color) ==
    Let(<<LegalMoves(board, color), PiecesOf(board, Opposite(color))>>,
        LAMBDA x :
            Let({m : m \in {n \in x[1] : LandsAttacked(board, n, x[2])}},
                LAMBDA risky :
                    [sc |-> {m \in x[1] \ risky : At(board, m[2]) # Empty},
                     sm |-> {m \in x[1] \ risky : At(board, m[2]) = Empty},
                     rc |-> {m \in risky : At(board, m[2]) # Empty},
                     rm |-> {m \in risky : At(board, m[2]) = Empty}]))

\* C15: not in check and with a legal move, make_move returns a member of
\* the first bucket that is not empty of: safe captures, safe moves, risky
\* captures, risky moves.
C15_StrategicBuckets ==
    res.op = "make_move" /\ res.out # NoMove /\ ~InCheck(pos, side) =>
        \E b \in {Buckets(pos, side)} :
            res.out \in IF b.sc # {} THEN b.sc
                        ELSE IF b.sm # {} THEN b.sm
                        ELSE IF b.rc # {} THEN b.rc
                        ELSE b.rm

\* a safe move returned although a risky capture is there
C15_Witness ==
    /\ res.op = "make_move" /\ res.out # NoMove /\ ~InCheck(pos, side)
    /\ \E b \in {Buckets(pos, side)} :
           b.sc = {} /\ b.rc # {} /\ res.out \in b.sm

\* a game against the bot standing at the position, the bot to move
BotGameAt(board, color) ==
    [NewBotGame EXCEPT !.board_state = board, !.current_turn = color, !.bot_color = color]

\* C16: make_move returns None exactly when the side has no legal move; in
\* exactly those positions check_game_status for the side says checkmate or
\* stalemate, and make_bot_move, handed None there, ends the game rather than
\* taking its branch for a bot without a move in a game that is not over.
C16_NoneIsGameOver ==
    res.op = "make_move" =>
        /\ res.out = NoMove <=> LegalMoves(pos, side) = {}
        /\ res.out = NoMove <=> check_game_status(pos, side)[1] \in {"checkmate", "stalemate"}
        /\ res.out = NoMove =>
               \E r \in {make_bot_move(BotGameAt(pos, side), NoMove)} :
                   /\ r.last.outcome = "no_move"
                   /\ r.last.group = <<"game_over">>
                   /\ r.game.status \in {"checkmate", "stalemate"}

\* make_move has returned None on a stalemate that is also short of material
C16_Witness ==
    /\ res.op = "make_move" /\ res.out = NoMove
    /\ check_game_status(pos, side)[1] = "stalemate"
    /\ PieceCount(pos) = 3

\* C17: after an accepted move, the last thing done to the game, the stored
\* current_turn is the opposite of the side that moved, also when the move
\* ended the game by checkmate, stalemate or draw.
C17_TurnAlternates ==
    last.outcome = "accepted" => game.current_turn = Opposite(last.mover)

KingCount(board, color) ==
    Cardinality({s \in Squares : At(board, s) = <<ColorCode(color), "k">>})

OneKingEach(board) == KingCount(board, "white") = 1 /\ KingCount(board, "black") = 1

\* a two-player game standing at the position, the side to move
GameAt(board, color) ==
    [NewMatchGame EXCEPT !.board_state = board, !.current_turn = color]

\* C18: from a position with one king of each colour where the side that
\* is not to move is not in check, as the initial layout is, no accepted move
\* lands on a king, and the board after any accepted move, of a player with
\* any promotion requested or of the bot, is again such a position; so every
\* position reached from the initial layout has exactly one king of each
\* colour.
C18_OneKingEach ==
    /\ OneKingEach(initialize_board) /\ ~InCheck(initialize_board, "black")
    /\ OneKingEach(pos) /\ ~InCheck(pos, Opposite(side))
    /\ res.op = "is_valid_move" =>
           \A v \in res.out : v[3] = MsgValid =>
               /\ At(pos, v[2])[2] # "k"
               /\ \A promotion \in PromotionInputs(GameAt(pos, side), v[1], v[2]) :
                      \E r \in {handle_move(GameAt(pos, side), TRUE,
                                             PlayerOf(GameAt(pos, side), side),
                                             v[1], v[2], promotion)} :
                          /\ r.last.outcome = "accepted"
                          /\ OneKingEach(r.last.board) /\ ~InCheck(r.last.board, side)
                          /\ OneKingEach(r.game.board_state)
    /\ res.op = "make_move" /\ res.out # NoMove =>
           \E r \in {make_bot_move(BotGameAt(pos, side), res.out)} :
               /\ r.last.outcome = "accepted"
               /\ OneKingEach(r.last.board) /\ ~InCheck(r.last.board, side)
               /\ OneKingEach(r.game.board_state)

\* a pawn has an accepted move to its last rank, where a king may be asked for
C18_Witness ==
    /\ res.op = "is_valid_move"
    /\ \E v \in res.out :
           /\ v[3] = MsgValid
           /\ "k" \in PromotionInputs(GameAt(pos, side), v[1], v[2])

\* the bot's turn in a running game
BotMayAct(g0) == g0.status = "playing" /\ g0.current_turn = g0.bot_color

\* C19: a bot task that ends its sleep on a stored game that is not playing
\* or not at the bot's turn (the player resigned, or the row changed
\* otherwise, during the delay) stops there: it leaves the row as it is,
\* verdict included, and sets no write in motion; every write of a bot task
\* comes from a read of a playing game at the bot's turn.
C19_BotTaskReverifies ==
    [][ /\ bot_tasks' < bot_tasks /\ ~BotMayAct(game) =>
               /\ game' = game
               /\ inflight' = inflight
               /\ last'.handler = "make_bot_move" /\ last'.outcome = "ignored"
        /\ \A i \in DOMAIN inflight' :
               inflight'[i].last.handler = "make_bot_move" => BotMayAct(inflight'[i].read)
      ]_vars

\* the bot task has run after the resignation of the player was stored
C19_Witness ==
    /\ game.is_bot_game /\ game.status = "finished" /\ game.winner = game.bot_color
    /\ last.handler = "make_bot_move" /\ last.outcome = "ignored"
    /\ inflight = <<>>

\* C20: a handler writes only to the row it read: when its write runs, no
\* other handler has written to the game since its read, so that no two
\* handlers validate against one stored position and both write, and nothing
\* stored is overwritten from a stale read.
C20_NoStaleWrite ==
    [][ \A i \in DOMAIN inflight :
            inflight' = RemoveAt(inflight, i) => inflight[i].read = game ]_vars

\* the pawn's last rank
FarRank(code) == IF code = "w" THEN 8 ELSE 1

\* the piece an accepted move puts on its destination
PieceArriving(board, from_pos, to_pos, promotion) ==
    LET moved == At(board, from_pos)
    IN  IF moved[2] = "p" /\ to_pos[2] = FarRank(moved[1])
        THEN <<moved[1], IF promotion \in {"q", "r", "b", "n"} THEN promotion ELSE "q">>
        ELSE moved

\* C21: the board after an accepted move differs from the board before in
\* two squares: the source is empty and the destination holds the moved
\* piece, of the same colour and type, but for a pawn on its last rank, which
\* is the piece requested when that is a queen, rook, bishop or knight and a
\* queen otherwise.
C21_TwoSquaresChange ==
    res.op = "is_valid_move" =>
        \A v \in res.out : v[3] = MsgValid =>
            \A promotion \in PromotionInputs(GameAt(pos, side), v[1], v[2]) :
                \E r \in {handle_move(GameAt(pos, side), TRUE,
                                       PlayerOf(GameAt(pos, side), side),
                                       v[1], v[2], promotion)} :
                    /\ r.last.outcome = "accepted"
                    /\ \A s \in Squares :
                           At(r.last.board, s) =
                               IF s = v[2] THEN PieceArriving(pos, v[1], v[2], promotion)
                               ELSE IF s = v[1] THEN Empty
                               ELSE At(pos, s)

\* black has an accepted move of a pawn to rank 1, and an accepted move of
\* another piece
C21_Witness ==
    /\ res.op = "is_valid_move" /\ side = "black"
    /\ \E v \in res.out : v[3] = MsgValid /\ At(pos, v[1])[2] = "p" /\ v[2][2] = 1
    /\ \E v \in res.out : v[3] = MsgValid /\ At(pos, v[1])[2] \notin {"p", "k"}

\* C22: a bot move that takes a pawn to the other side's back rank puts a
\* queen of the bot's colour there, and after a bot move no pawn stands on
\* rank 1 or rank 8.
C22_BotPromotesToQueen ==
    res.op = "make_move" /\ res.out # NoMove =>
        \E r \in {make_bot_move(BotGameAt(pos, side), res.out)} :
            /\ r.last.outcome = "accepted"
            /\ At(pos, res.out[1])[2] = "p" /\ res.out[2][2] = FarRank(ColorCode(side)) =>
                   /\ At(r.last.board, res.out[2]) = <<ColorCode(side), "q">>
                   /\ r.last.piece = <<ColorCode(side), "q">>
            /\ \A s \in Squares : At(r.last.board, s)[2] = "p" => s[2] \notin {1, 8}

\* the bot has returned the move of a pawn to the back rank
C22_Witness ==
    /\ res.op = "make_move" /\ res.out # NoMove
    /\ At(pos, res.out[1])[2] = "p"
    /\ res.out[2][2] = FarRank(ColorCode(side))

RejectMessages ==
    RejectReasons \cup {"Game not found", "Not a player in this game", "Not your turn",
                        "You are in check! You must escape check."}

\* C24: a step in which handle_move rejects a request leaves the stored
\* game (board, turn, history, status, winner) as it was, creates no bot
\* task, sends nothing to the group and answers the sender with an error.
C24_RejectionChangesNothing ==
    [][last'.handler = "handle_move" /\ last'.outcome = "rejected" =>
           /\ game' = game
           /\ bot_tasks' = bot_tasks /\ ~last'.scheduled
           /\ accepted' = accepted
           /\ last'.group = <<>>
           /\ last'.error \in RejectMessages]_vars

\* a request was rejected for a side in check, the game at its third move
C24_Witness ==
    /\ last.handler = "handle_move" /\ last.outcome = "rejected"
    /\ last.error = "You are in check! You must escape check."
    /\ Len(game.move_history) = 3 /\ game.status = "playing"

\* the stored status of a game that has ended
Ended == Terminal \cup {"finished"}

\* C25: once the stored status is checkmate, stalemate, draw or finished,
\* no move is accepted for the game, and no step changes its board or its
\* turn.
C25_NoMoveAfterEnd ==
    [][game.status \in Ended =>
           /\ game'.board_state = game.board_state
           /\ game'.current_turn = game.current_turn
           /\ accepted'.total = accepted.total]_vars

\* C26: once the stored status is an ended one, no step, of a move, a
\* resignation or a bot task, changes the stored status or the stored winner.
C26_VerdictIsFinal ==
    [][game.status \in Ended =>
           game'.status = game.status /\ game'.winner = game.winner]_vars

\* C27: after an accepted move, the last thing done to the game, the stored
\* board is the board sent in the game_update, and the stored history has one
\* entry for every move accepted so far, the last of them this move.
C27_StoredIsBroadcast ==
    last.outcome = "accepted" =>
        /\ game.board_state = last.board
        /\ Len(game.move_history) = accepted.total
        /\ \E e \in {game.move_history[Len(game.move_history)]} :
               e.from = last.from /\ e.to = last.to /\ e.piece = last.piece

\* C28: on every square and for either side, named 'white'/'black' or
\* 'w'/'b', ChessBot.is_square_under_attack answers as
\* ChessRules.is_square_under_attack does; and for every move of a piece of
\* the side, the bot's king-safety filter and the check of the rules agree.
C28_AttackOraclesAgree ==
    res.op = "ChessBot.is_square_under_attack" =>
        /\ res.out = {q \in Squares \X Encodings : is_square_under_attack(pos, q[1], q[2])}
        /\ \A by \in Colors : \A q \in Squares :
               (<<q, by>> \in res.out) = (<<q, ColorCode(by)>> \in res.out)
        /\ \A c \in {side, ColorCode(side)} :
               \A m \in PiecesOf(pos, side) \X Squares :
                   is_move_safe_for_king(pos, m[1], m[2], c)
                       = is_move_legal_king_safety(pos, m[1], m[2], c)

\* a square is attacked along a ray by one side, and a piece shuts another
\* ray; a move of the side is refused by the filters
C28_Witness ==
    /\ res.op = "ChessBot.is_square_under_attack"
    /\ \E s \in Squares, t \in Squares :
           /\ At(pos, s)[2] \in {"r", "q", "b"} /\ Between(s, t) # {}
           /\ <<t, At(pos, s)[1]>> \in res.out
    /\ \E s \in Squares, t \in Squares :
           /\ At(pos, s)[2] \in {"r", "q"} /\ s[1] = t[1] /\ s # t
           /\ \E q \in Between(s, t) : At(pos, q) # Empty
           /\ <<t, At(pos, s)[1]>> \notin res.out
    /\ \E m \in PiecesOf(pos, side) \X Squares :
           /\ is_pseudo_legal_move(pos, m[1], m[2], At(pos, m[1]))
           /\ ~is_move_safe_for_king(pos, m[1], m[2], side)

\* C29: under any connects and disconnects the waiting list holds at most
\* one entry for a user, the two entries of a match are of different users,
\* and every game created has different users as white and black.
C29_NoSelfMatch ==
    /\ \A i \in DOMAIN waiting_players : \A j \in DOMAIN waiting_players :
           i # j => waiting_players[i].user_id # waiting_players[j].user_id
    /\ \A m \in matching : m.p1.user_id # m.p2.user_id /\ m.p1.channel # m.p2.channel
    /\ \A i \in DOMAIN chess_games :
           chess_games[i].white_player # chess_games[i].black_player

\* a user with two open connections, of which the later one was matched
\* with another user
C29_Witness ==
    /\ \E c \in Channels, d \in Channels :
           /\ c # d /\ conns[c].state = "open" /\ conns[d].state = "open"
           /\ conns[c].user = conns[d].user
           /\ \E x \in sent : x.type = "waiting" /\ x.channel = c
           /\ \E x \in sent : x.type = "match_found" /\ x.channel = d
    /\ chess_games # <<>>

\* the channels told, in the messages, of the game with the code
ToldOf(msgs, code) ==
    {x.channel : x \in {y \in msgs : y.type = "match_found" /\ y.game_code = code}}

\* C30: between handlers the waiting list holds at most one entry; a match
\* takes the entry that waited and the one that just came, the one that
\* waited as white, and leaves nobody waiting; a connection is told of at
\* most one game; and the game's code goes to the two matched channels.
C30_FirstComeFirstServed ==
    /\ [](Len(waiting_players) <= 1)
    /\ [](\A x \in sent : \A y \in sent :
             x.type = "match_found" /\ y.type = "match_found" /\ x.channel = y.channel
                 => x.game_code = y.game_code)
    /\ [](\A i \in DOMAIN chess_games : Cardinality(ToldOf(sent, chess_games[i].code)) = 2)
    /\ [][\A m \in matching' \ matching :
              /\ waiting_players # <<>> /\ m.p1 = waiting_players[1]
              /\ conns[m.p2.channel].state = "new" /\ m.by = m.p2.channel
              /\ waiting_players' = <<>>]_vars
    /\ [][Len(chess_games') > Len(chess_games) =>
              \E m \in matching :
                  /\ matching' = matching \ {m}
                  /\ chess_games' = Append(chess_games, chess_games'[Len(chess_games')])
                  /\ chess_games'[Len(chess_games')].white_player = m.p1.user_id
                  /\ chess_games'[Len(chess_games')].black_player = m.p2.user_id
                  /\ ToldOf(sent', chess_games'[Len(chess_games')].code)
                         = {m.p1.channel, m.p2.channel}
          ]_vars

\* two games were made, the first player of the second having waited while
\* the first match was made
C30_Witness ==
    /\ Len(chess_games) = 2
    /\ matching = {}
    /\ \A c \in Channels : \E x \in sent : x.type = "match_found" /\ x.channel = c

====
